---------------------------- MODULE Spec2Model ----------------------------
(***************************************************************************)
(* Detection pipeline of the Market Anomaly Detection System:              *)
(* feature engineer, the three detectors, score aggregation, business      *)
(* rules, severity and the detection engine (single call and batch).       *)
(*                                                                         *)
(* Number representation (Python floats are modelled by exact fixed-point  *)
(* or rational values; binary64 rounding of sums is not represented):      *)
(*   score        integer count of 1/ScoreUnit points (ScoreUnit = 2000)   *)
(*   confidence   integer count of 1/ConfUnit      (ConfUnit = 60)         *)
(*   weight       integer count of 1/WeightUnit    (WeightUnit = 20)       *)
(*   z-scores, percentages  integer hundredths (the code rounds to 2 dp)   *)
(*   amount       whole currency units                                     *)
(*   composite    rational [num, den], in score units                      *)
(* ScoreUnit is a multiple of every divisor the detectors apply, so each    *)
(* contribution is exact; the units keep all products within 32 bits.      *)
(***************************************************************************)
EXTENDS Integers, Sequences, FiniteSets, TLC

VARIABLES
    ctor_args,             \* arguments DetectionEngine(...) was constructed with
    risk_threshold_alert,  \* DetectionEngine.risk_threshold_alert (score units)
    detector_weights,      \* DetectionEngine.detector_weights (name -> weight)
    transactions,          \* argument of batch_process
    pos,                   \* index of the transaction batch_process is at
    pc,                    \* position inside batch_process / process_transaction
    features,              \* local of process_transaction
    detector_results,      \* local of process_transaction (insertion-ordered dict)
    composite_score,       \* local of process_transaction
    results,               \* local list of batch_process
    returned,              \* what batch_process returned to its caller
    raised,                \* TRUE once an exception left batch_process
    invoked,               \* per call: detectors whose detect was called, in order
    faults,                \* per call: detectors whose detect raised
    metrics,               \* the global MetricsCollector (core/observability.py)
    probe,                 \* function-level specifications: operation and inputs
    outcome                \* function-level specifications: value returned

vars == <<ctor_args, risk_threshold_alert, detector_weights, transactions, pos, pc,
          features, detector_results, composite_score, results, returned,
          raised, invoked, faults, metrics, probe, outcome>>

engine_vars == <<ctor_args, risk_threshold_alert, detector_weights, transactions, pos, pc,
                 features, detector_results, composite_score, results,
                 returned, raised, invoked, faults, metrics>>

-----------------------------------------------------------------------------
(* Units and arithmetic helpers *)

ScoreUnit == 2 * 1000
ConfUnit == 3 * 20
WeightUnit == 2 * 10

Pts(n) == n * ScoreUnit

Min(a, b) == IF a <= b THEN a ELSE b
Max(a, b) == IF a >= b THEN a ELSE b
Abs(a) == IF a < 0 THEN 0 - a ELSE a

\* floor of n/d for d > 0 and any integer n
FloorDiv(n, d) == IF n >= 0 THEN n \div d ELSE 0 - ((0 - n + d - 1) \div d)

\* Python round(): nearest integer multiple, ties to even
RoundHalfEven(n, d) ==
    LET q == FloorDiv(n, d)
        r == n - q * d
    IN  IF 2 * r < d THEN q
        ELSE IF 2 * r > d THEN q + 1
        ELSE IF q % 2 = 0 THEN q ELSE q + 1

\* dict.get(key, default)
Get(f, k, d) == IF k \in DOMAIN f THEN f[k] ELSE d

RECURSIVE SeqSum(_)
SeqSum(s) == IF s = <<>> THEN 0 ELSE Head(s) + SeqSum(Tail(s))

RECURSIVE Flatten(_)
Flatten(ss) == IF ss = <<>> THEN <<>> ELSE Head(ss) \o Flatten(Tail(ss))

Range(s) == {s[i] : i \in 1..Len(s)}

-----------------------------------------------------------------------------
(* detectors/base.py *)

\* a faulty variant of clamp_score: the upper clamp is lost
clamp_score_no_upper(score) == Max(0, score)

clamp_score(score) == Max(0, Min(Pts(100), score))

DetectionResult(s, c, e) == [score |-> s, confidence |-> c, explanations |-> e]

-----------------------------------------------------------------------------
(* detectors/statistical.py *)

HIGH_AMOUNT_THRESHOLD == 10000
ZSCORE_THRESHOLD == 3
VELOCITY_THRESHOLD == 5

stat_amount_contribution(f) ==
    LET amount == Get(f, "amount", 0)
    IN  IF amount > HIGH_AMOUNT_THRESHOLD
        THEN Min(Pts(30), amount * ((15 * ScoreUnit) \div HIGH_AMOUNT_THRESHOLD))
        ELSE 0

stat_zscore_contribution(f) ==
    LET z == Get(f, "amount_zscore", 0)
    IN  IF Abs(z) > ZSCORE_THRESHOLD * 100
        THEN Min(Pts(25), Abs(z) * ((5 * ScoreUnit) \div 100))
        ELSE 0

stat_hour_contribution(f) ==
    IF Get(f, "is_unusual_hour", FALSE) THEN Pts(15) ELSE 0

stat_velocity_contribution(f) ==
    LET hourly_count == Get(f, "hourly_transaction_count", 0)
    IN  IF hourly_count > VELOCITY_THRESHOLD
        THEN Min(Pts(20), Pts((hourly_count - VELOCITY_THRESHOLD) * 5))
        ELSE 0

stat_geo_contribution(f) ==
    LET geo_risk == Get(f, "geo_risk_score", 0)
    IN  IF geo_risk > 50 THEN geo_risk * ((2 * ScoreUnit) \div 10) ELSE 0

stat_device_contribution(f) ==
    IF Get(f, "is_new_device", FALSE) THEN Pts(10) ELSE 0

stat_raw_score(f) ==
    stat_amount_contribution(f) + stat_zscore_contribution(f)
    + stat_hour_contribution(f) + stat_velocity_contribution(f)
    + stat_geo_contribution(f) + stat_device_contribution(f)

stat_explanations(f) ==
    (IF Get(f, "amount", 0) > HIGH_AMOUNT_THRESHOLD
        THEN <<"High transaction amount">> ELSE <<>>)
    \o (IF Abs(Get(f, "amount_zscore", 0)) > ZSCORE_THRESHOLD * 100
        THEN <<"Amount deviation from mean">> ELSE <<>>)
    \o (IF Get(f, "is_unusual_hour", FALSE)
        THEN <<"Transaction at unusual hour">> ELSE <<>>)
    \o (IF Get(f, "hourly_transaction_count", 0) > VELOCITY_THRESHOLD
        THEN <<"High transaction velocity">> ELSE <<>>)
    \o (IF Get(f, "geo_risk_score", 0) > 80
        THEN <<"High-risk geographic location">> ELSE <<>>)
    \o (IF Get(f, "is_new_device", FALSE)
        THEN <<"New device fingerprint">> ELSE <<>>)

\* data_points: the four fields the code counts
stat_data_points(f) ==
    Cardinality({"amount", "amount_zscore", "hourly_transaction_count",
                 "geo_risk_score"} \cap DOMAIN f)

\* confidence = min(1.0, data_points / 3)
stat_confidence(f) == Min(ConfUnit, (stat_data_points(f) * ConfUnit) \div 3)

statistical_detect(f) ==
    DetectionResult(clamp_score(stat_raw_score(f)), stat_confidence(f),
                    stat_explanations(f))

-----------------------------------------------------------------------------
(* detectors/behavioral.py *)

beh_spending_contribution(f) ==
    LET pct == Get(f, "amount_pct_from_avg", 0)
    IN  IF pct > 200 * 100
        THEN Min(Pts(25), (pct - 200 * 100) * (ScoreUnit \div (20 * 100)))
        ELSE 0

beh_destination_contribution(f) ==
    IF Get(f, "is_new_destination", FALSE) THEN Pts(15) ELSE 0

beh_channel_contribution(f) ==
    IF Get(f, "is_new_channel", FALSE) THEN Pts(10) ELSE 0

beh_time_contribution(f) ==
    LET t == Get(f, "time_pattern_deviation", 0)
    IN  IF t > 50 THEN t * ((2 * ScoreUnit) \div 10) ELSE 0

beh_frequency_contribution(f) ==
    LET fz == Get(f, "frequency_zscore", 0)
    IN  IF Abs(fz) > 2 * 100
        THEN Min(Pts(20), Abs(fz) * ((5 * ScoreUnit) \div 100))
        ELSE 0

beh_geo_contribution(f) ==
    LET is_new_location == Get(f, "is_new_geo_location", FALSE)
        location_distance == Get(f, "location_distance_km", 0)
    IN  IF is_new_location /\ location_distance > 500
        THEN Min(Pts(25), location_distance * (ScoreUnit \div 100))
        ELSE 0

beh_account_age_contribution(f) ==
    IF Get(f, "account_age_days", 365) < 30 THEN Pts(10) ELSE 0

beh_raw_score(f) ==
    beh_spending_contribution(f) + beh_destination_contribution(f)
    + beh_channel_contribution(f) + beh_time_contribution(f)
    + beh_frequency_contribution(f) + beh_geo_contribution(f)
    + beh_account_age_contribution(f)

beh_explanations(f) ==
    (IF Get(f, "amount_pct_from_avg", 0) > 200 * 100
        THEN <<"Spending above typical">> ELSE <<>>)
    \o (IF Get(f, "is_new_destination", FALSE)
        THEN <<"First-time transaction destination">> ELSE <<>>)
    \o (IF Get(f, "is_new_channel", FALSE)
        THEN <<"New transaction channel used">> ELSE <<>>)
    \o (IF Get(f, "time_pattern_deviation", 0) > 50
        THEN <<"Unusual time pattern for this entity">> ELSE <<>>)
    \o (IF Abs(Get(f, "frequency_zscore", 0)) > 2 * 100
        THEN (IF Get(f, "frequency_zscore", 0) > 0
              THEN <<"Transaction frequency higher than usual">>
              ELSE <<"Activity after dormant period">>)
        ELSE <<>>)
    \o (IF Get(f, "is_new_geo_location", FALSE)
           /\ Get(f, "location_distance_km", 0) > 500
        THEN <<"Transaction from new location">> ELSE <<>>)
    \o (IF Get(f, "account_age_days", 365) < 30
        THEN <<"New account (less than 30 days old)">> ELSE <<>>)

\* confidence = 0.9 if has_history else 0.5
beh_confidence(f) ==
    IF Get(f, "has_historical_data", FALSE)
    THEN (9 * ConfUnit) \div 10 ELSE (5 * ConfUnit) \div 10

behavioral_detect(f) ==
    DetectionResult(clamp_score(beh_raw_score(f)), beh_confidence(f),
                    beh_explanations(f))

-----------------------------------------------------------------------------
(* detectors/ml_detector.py *)

\* _prepare_features; amount_normalized and frequency_deviation in 1/300,
\* velocity in tenths, geo_risk in hundredths, the flags 0 or 1
prepare_features(raw) ==
    [amount_normalized |-> Get(raw, "amount_zscore", 0),
     time_risk |-> IF Get(raw, "is_unusual_hour", FALSE) THEN 1 ELSE 0,
     velocity |-> Min(10, Get(raw, "hourly_transaction_count", 0)),
     geo_risk |-> Get(raw, "geo_risk_score", 50),
     device_risk |-> IF Get(raw, "is_new_device", FALSE) THEN 1 ELSE 0,
     destination_risk |-> IF Get(raw, "is_new_destination", FALSE) THEN 1 ELSE 0,
     frequency_deviation |-> Abs(Get(raw, "frequency_zscore", 0)),
     account_age_risk |-> IF Get(raw, "account_age_days", 365) < 30 THEN 1 ELSE 0]

predict_base_score(mf) ==
    Pts(20)
    + (IF mf.amount_normalized * 10 > 8 * 300 THEN Pts(30)
       ELSE IF mf.amount_normalized * 10 > 5 * 300 THEN Pts(15) ELSE 0)
    + (IF mf.velocity > 7 THEN Pts(20) ELSE 0)
    + (IF mf.geo_risk > 70 THEN Pts(15) ELSE 0)
    + (IF mf.device_risk * 10 > 5 THEN Pts(10) ELSE 0)
    + (IF mf.destination_risk * 10 > 5 THEN Pts(10) ELSE 0)

predict_confidence(final_score) ==
    IF final_score > Pts(80) \/ final_score < Pts(30) THEN (9 * ConfUnit) \div 10
    ELSE IF final_score > Pts(60) \/ final_score < Pts(40) THEN (75 * ConfUnit) \div 100
    ELSE (6 * ConfUnit) \div 10

\* _predict; noise is the draw of random.uniform(-5, 5), in score units
predict(mf, noise) ==
    LET final_score == clamp_score(predict_base_score(mf) + noise)
    IN  [score |-> final_score, confidence |-> predict_confidence(final_score)]

generate_explanations(mf, score) ==
    IF score < Pts(40) THEN <<>>
    ELSE LET e == (IF mf.amount_normalized * 10 > 7 * 300
                      THEN <<"ML: Unusual transaction amount pattern">> ELSE <<>>)
                  \o (IF mf.velocity > 6
                      THEN <<"ML: Elevated transaction frequency detected">> ELSE <<>>)
                  \o (IF mf.geo_risk > 60
                      THEN <<"ML: Geographic pattern anomaly">> ELSE <<>>)
                  \o (IF mf.device_risk * 10 > 5
                      THEN <<"ML: Device fingerprint risk signal">> ELSE <<>>)
                  \o (IF mf.frequency_deviation * 10 > 7 * 300
                      THEN <<"ML: Behavioral frequency anomaly">> ELSE <<>>)
         IN  IF e = <<>> /\ score > Pts(50)
             THEN <<"ML: Combined risk factors elevated">> ELSE e

\* a faulty variant of ml_detect: the prediction is made without a model
ml_detect_without_model(f, noise, model_loaded) ==
    LET mf == prepare_features(f)
        p == predict(mf, noise)
    IN  DetectionResult(p.score, p.confidence, generate_explanations(mf, p.score))

ml_detect(f, noise, model_loaded) ==
    IF ~model_loaded
    THEN DetectionResult(Pts(50), 0, <<"ML model unavailable">>)
    ELSE LET mf == prepare_features(f)
             p == predict(mf, noise)
         IN  DetectionResult(p.score, p.confidence,
                             generate_explanations(mf, p.score))

\* MLDetector._load_model: the mock load cannot fail
load_model == TRUE

-----------------------------------------------------------------------------
(* features/feature_engineer.py *)

HIGH_RISK_COUNTRIES == {"XX", "YY", "ZZ"}
UNUSUAL_HOURS == 0..4
historical_mean == 1500
historical_std == 800

\* A transaction carries its timestamp as a set: {} is None.  rnd holds the
\* values the calls of random.* return while this transaction is processed
\* (the draws of the feature engineer and the noise of MLDetector._predict).
extraction_raises(tx) == tx.timestamp = {}

extract_temporal_features(tx) ==
    LET ts == CHOOSE t \in tx.timestamp : TRUE
    IN  [hour_of_day |-> ts.hour,
         day_of_week |-> ts.weekday,
         is_weekend |-> ts.weekday >= 5,
         is_unusual_hour |-> ts.hour \in UNUSUAL_HOURS,
         is_end_of_month |-> ts.day > 25,
         quarter |-> ((ts.month - 1) \div 3) + 1]

extract_statistical_features(tx) ==
    [amount_zscore |->
        IF historical_std > 0
        THEN RoundHalfEven((tx.amount - historical_mean) * 100, historical_std)
        ELSE 0,
     amount_pct_from_avg |->
        IF historical_mean > 0
        THEN RoundHalfEven((tx.amount - historical_mean) * 100 * 100, historical_mean)
        ELSE 0,
     historical_mean |-> historical_mean,
     historical_std |-> historical_std,
     is_above_average |-> tx.amount > historical_mean,
     is_high_value |-> tx.amount > 10000]

extract_behavioral_features(tx) ==
    [has_historical_data |-> Len(tx.historical_transactions) > 0,
     is_new_destination |-> tx.rnd.is_new_destination,
     is_new_channel |-> tx.rnd.is_new_channel,
     frequency_zscore |-> tx.rnd.frequency_zscore,
     time_pattern_deviation |-> tx.rnd.time_pattern_deviation,
     is_new_geo_location |-> tx.rnd.is_new_geo_location,
     location_distance_km |-> tx.rnd.location_distance_km,
     account_age_days |-> tx.rnd.account_age_days,
     hourly_transaction_count |-> tx.rnd.hourly_transaction_count]

\* geo_location is modelled by its first two characters ("" when None)
extract_device_features(tx) ==
    [geo_risk_score |-> IF tx.geo_location \in HIGH_RISK_COUNTRIES THEN 85 ELSE 30,
     is_new_device |-> tx.rnd.is_new_device]

\* dict.update: the right operand's keys win
Update(f, g) ==
    [k \in DOMAIN f \cup DOMAIN g |-> IF k \in DOMAIN g THEN g[k] ELSE f[k]]

extract_features(tx) ==
    Update(Update(Update(Update(
        [transaction_id |-> tx.transaction_id, amount |-> tx.amount],
        extract_temporal_features(tx)),
        extract_statistical_features(tx)),
        extract_behavioral_features(tx)),
        extract_device_features(tx))

-----------------------------------------------------------------------------
(* detection/engine.py: aggregation and severity *)

\* An insertion-ordered dict is a sequence of entries with distinct names.
\* d[name] = value: replaces in place, or appends a new key at the end.
dict_set(d, name, value) ==
    IF \E i \in 1..Len(d) : d[i].name = name
    THEN [i \in 1..Len(d) |-> IF d[i].name = name THEN value ELSE d[i]]
    ELSE Append(d, value)

Entry(name, r) ==
    [name |-> name, score |-> r.score, confidence |-> r.confidence,
     explanations |-> r.explanations]

DEFAULT_ENGINE_WEIGHTS ==
    [statistical |-> (25 * WeightUnit) \div 100,
     behavioral |-> (35 * WeightUnit) \div 100,
     ml |-> (40 * WeightUnit) \div 100]

\* the for loop of _aggregate_scores, over the dict's items in order
RECURSIVE aggregate_loop(_, _, _, _)
aggregate_loop(items, weights, weighted_sum, total_weight) ==
    IF items = <<>>
    THEN [weighted_sum |-> weighted_sum, total_weight |-> total_weight]
    ELSE LET result == Head(items)
             weight == Get(weights, result.name, 0)
             effective_weight == weight * result.confidence
         IN  aggregate_loop(Tail(items), weights,
                            weighted_sum + result.score * effective_weight,
                            total_weight + effective_weight)

\* faulty variants of aggregate_scores
RECURSIVE aggregate_loop_no_confidence(_, _, _, _)
aggregate_loop_no_confidence(items, weights, weighted_sum, total_weight) ==
    IF items = <<>>
    THEN [weighted_sum |-> weighted_sum, total_weight |-> total_weight]
    ELSE LET result == Head(items)
             weight == Get(weights, result.name, 0)
         IN  aggregate_loop_no_confidence(Tail(items), weights,
                                          weighted_sum + result.score * weight,
                                          total_weight + weight)

\* the confidence is forgotten: effective_weight = weight
aggregate_scores_no_confidence(results_dict, weights) ==
    LET acc == aggregate_loop_no_confidence(results_dict, weights, 0, 0)
    IN  IF acc.total_weight = 0
        THEN [num |-> Pts(50), den |-> 1]
        ELSE [num |-> acc.weighted_sum, den |-> acc.total_weight]

RECURSIVE aggregate_loop_last_weight(_, _, _, _)
aggregate_loop_last_weight(items, weights, weighted_sum, total_weight) ==
    IF items = <<>>
    THEN [weighted_sum |-> weighted_sum, total_weight |-> total_weight]
    ELSE LET result == Head(items)
             weight == Get(weights, result.name, 0)
             effective_weight == weight * result.confidence
         IN  aggregate_loop_last_weight(Tail(items), weights,
                                        weighted_sum + result.score * effective_weight,
                                        effective_weight)

\* total_weight = effective_weight instead of total_weight += effective_weight
aggregate_scores_last_weight(results_dict, weights) ==
    LET acc == aggregate_loop_last_weight(results_dict, weights, 0, 0)
    IN  IF acc.total_weight = 0
        THEN [num |-> Pts(50), den |-> 1]
        ELSE [num |-> acc.weighted_sum, den |-> acc.total_weight]

\* the sum is divided by the sum of the weights, not of the effective weights
aggregate_scores_by_weight_sum(results_dict, weights) ==
    LET acc == aggregate_loop(results_dict, weights, 0, 0)
        plain == aggregate_loop_no_confidence(results_dict, weights, 0, 0)
    IN  IF acc.total_weight = 0
        THEN [num |-> Pts(50), den |-> 1]
        ELSE [num |-> acc.weighted_sum, den |-> plain.total_weight * ConfUnit]

\* no detector contributed: the score is 0 instead of the neutral 50
aggregate_scores_zero_when_empty(results_dict, weights) ==
    LET acc == aggregate_loop(results_dict, weights, 0, 0)
    IN  IF acc.total_weight = 0
        THEN [num |-> 0, den |-> 1]
        ELSE [num |-> acc.weighted_sum, den |-> acc.total_weight]

\* _aggregate_scores: a rational number of score units
aggregate_scores(results_dict, weights) ==
    LET acc == aggregate_loop(results_dict, weights, 0, 0)
    IN  IF acc.total_weight = 0
        THEN [num |-> Pts(50), den |-> 1]
        ELSE [num |-> acc.weighted_sum, den |-> acc.total_weight]

\* comparisons of a rational composite (den > 0) with a score in score units
RatGE(c, s) == c.num >= s * c.den
RatLE(c, s) == c.num <= s * c.den

\* round(composite, 2): hundredths of a point
round2(c) == RoundHalfEven(c.num, c.den * (ScoreUnit \div 100))

\* a faulty variant of get_severity: the boundaries are open
get_severity_open(score) ==
    IF ~RatLE(score, Pts(90)) THEN "CRITICAL"
    ELSE IF ~RatLE(score, Pts(70)) THEN "HIGH"
    ELSE IF ~RatLE(score, Pts(50)) THEN "MEDIUM"
    ELSE "LOW"

get_severity(score) ==
    IF RatGE(score, Pts(90)) THEN "CRITICAL"
    ELSE IF RatGE(score, Pts(70)) THEN "HIGH"
    ELSE IF RatGE(score, Pts(50)) THEN "MEDIUM"
    ELSE "LOW"

-----------------------------------------------------------------------------
(* scoring/risk_scorer.py *)

DEFAULT_WEIGHTS ==
    [statistical |-> (25 * WeightUnit) \div 100,
     behavioral |-> (35 * WeightUnit) \div 100,
     ml |-> (40 * WeightUnit) \div 100]

RECURSIVE SetSum(_, _)
SetSum(S, f) ==
    IF S = {} THEN 0
    ELSE LET x == CHOOSE y \in S : TRUE IN f[x] + SetSum(S \ {x}, f)

\* a faulty variant of scorer_init: the weights are divided by the total
\* whenever it is not exactly 1.0
scorer_init_no_tolerance(weights, unit) ==
    LET w == IF DOMAIN weights = {}
             THEN [k \in DOMAIN DEFAULT_WEIGHTS |-> (DEFAULT_WEIGHTS[k] * unit) \div WeightUnit]
             ELSE weights
        total == SetSum(DOMAIN w, w)
    IN  IF total = 0
        THEN [raised |-> TRUE, weights |-> <<>>]
        ELSE [raised |-> FALSE,
              weights |-> [k \in DOMAIN w |-> [num |-> w[k], den |-> total]]]

\* RiskScorer.__init__: weights or DEFAULT_WEIGHTS, then _validate_weights,
\* which divides every weight by the total when the total is more than 0.01
\* away from 1.0.  Weights are given in 1/unit; self.weights afterwards is a
\* map of rationals num/den.  raised: the ZeroDivisionError of v / total
\* when the total is 0.
scorer_init(weights, unit) ==
    LET w == IF DOMAIN weights = {}
             THEN [k \in DOMAIN DEFAULT_WEIGHTS |-> (DEFAULT_WEIGHTS[k] * unit) \div WeightUnit]
             ELSE weights
        total == SetSum(DOMAIN w, w)
    IN  IF Abs(total - unit) * 100 > unit
        THEN IF total = 0
             THEN [raised |-> TRUE, weights |-> <<>>]
             ELSE [raised |-> FALSE,
                   weights |-> [k \in DOMAIN w |-> [num |-> w[k], den |-> total]]]
        ELSE [raised |-> FALSE,
              weights |-> [k \in DOMAIN w |-> [num |-> w[k], den |-> unit]]]

\* self.weights of a scorer constructed with weights in 1/WeightUnit, again
\* in 1/WeightUnit (the maps used are those for which this is exact)
validate_weights(weights) ==
    LET r == scorer_init(weights, WeightUnit).weights
    IN  [k \in DOMAIN r |-> (r[k].num * WeightUnit) \div r[k].den]

\* confidences = confidences or {k: 1.0 for k in detector_scores}
\* (None and the empty dict are both falsy; both are the empty function here)
scorer_confidences(detector_scores, confidences) ==
    IF DOMAIN confidences = {}
    THEN [k \in {detector_scores[i].name : i \in 1..Len(detector_scores)} |-> ConfUnit]
    ELSE confidences

RECURSIVE scorer_loop(_, _, _, _, _)
scorer_loop(items, weights, confidences, weighted_sum, total_weight) ==
    IF items = <<>>
    THEN [weighted_sum |-> weighted_sum, total_weight |-> total_weight]
    ELSE LET detector == Head(items).name
             score == Head(items).score
             weight == Get(weights, detector, 0)
             confidence == Get(confidences, detector, ConfUnit)
             effective_weight == weight * confidence
         IN  scorer_loop(Tail(items), weights, confidences,
                         weighted_sum + score * effective_weight,
                         total_weight + effective_weight)

\* the composite before rounding (lines 68-94)
scorer_weighted_average(detector_scores, confidences, weights) ==
    LET acc == scorer_loop(detector_scores, weights,
                           scorer_confidences(detector_scores, confidences), 0, 0)
    IN  IF acc.total_weight > 0
        THEN [num |-> acc.weighted_sum, den |-> acc.total_weight]
        ELSE [num |-> Pts(50), den |-> 1]

\* calculate_composite_score.  raised: the ZeroDivisionError of the overall
\* confidence when no key of confidences has a weight.  composite_score and
\* confidence are hundredths (round(.., 2)).
calculate_composite_score(detector_scores, confidences, weights) ==
    LET conf == scorer_confidences(detector_scores, confidences)
        weight_of == [d \in DOMAIN conf |-> Get(weights, d, 0)]
        cw == [d \in DOMAIN conf |-> conf[d] * weight_of[d]]
        sum_w == SetSum(DOMAIN conf, weight_of)
        sum_cw == SetSum(DOMAIN conf, cw)
    IN  IF DOMAIN conf # {} /\ sum_w = 0
        THEN [raised |-> TRUE, composite_score |-> 0, confidence |-> 0]
        ELSE [raised |-> FALSE,
              composite_score |->
                  round2(scorer_weighted_average(detector_scores, confidences, weights)),
              confidence |->
                  IF DOMAIN conf = {} THEN 100
                  ELSE RoundHalfEven(sum_cw * 100, sum_w * ConfUnit)]

\* apply_business_rules.  base_score in score units; the result in
\* 1/RuleUnit of a score unit, so that x0.9 and x0.85 are exact.
RuleUnit == 2 * 100

\* a faulty variant of apply_business_rules: the known-pattern floor is applied last
apply_business_rules_floor_last(base_score, ctx) ==
    LET a0 == base_score * RuleUnit
        a1 == IF Get(ctx, "is_vip_customer", FALSE) THEN (a0 * 9) \div 10 ELSE a0
        a2 == IF Get(ctx, "verified_merchant", FALSE) THEN (a1 * 17) \div 20 ELSE a1
        a3 == IF Get(ctx, "high_risk_country", FALSE)
              THEN Min(Pts(100) * RuleUnit, a2 + Pts(15) * RuleUnit) ELSE a2
        a4 == IF Get(ctx, "matches_known_pattern", FALSE)
              THEN Max(a3, Pts(80) * RuleUnit) ELSE a3
    IN  Max(0, Min(Pts(100) * RuleUnit, a4))

apply_business_rules(base_score, ctx) ==
    LET a0 == base_score * RuleUnit
        a1 == IF Get(ctx, "is_vip_customer", FALSE) THEN (a0 * 9) \div 10 ELSE a0
        a2 == IF Get(ctx, "matches_known_pattern", FALSE)
              THEN Max(a1, Pts(80) * RuleUnit) ELSE a1
        a3 == IF Get(ctx, "verified_merchant", FALSE) THEN (a2 * 17) \div 20 ELSE a2
        a4 == IF Get(ctx, "high_risk_country", FALSE)
              THEN Min(Pts(100) * RuleUnit, a3 + Pts(15) * RuleUnit) ELSE a3
    IN  Max(0, Min(Pts(100) * RuleUnit, a4))

\* a faulty variant of get_risk_level: the boundaries are open
get_risk_level_open(score) ==
    IF score > Pts(90) THEN "CRITICAL"
    ELSE IF score > Pts(70) THEN "HIGH"
    ELSE IF score > Pts(50) THEN "MEDIUM"
    ELSE IF score > Pts(30) THEN "LOW"
    ELSE "MINIMAL"

\* get_risk_level; score in score units
get_risk_level(score) ==
    IF score >= Pts(90) THEN "CRITICAL"
    ELSE IF score >= Pts(70) THEN "HIGH"
    ELSE IF score >= Pts(50) THEN "MEDIUM"
    ELSE IF score >= Pts(30) THEN "LOW"
    ELSE "MINIMAL"

-----------------------------------------------------------------------------
(* scoring/normalizer.py *)

\* sum(s * w for s, w in zip(scores, weights)): zip stops at the shorter list
RECURSIVE zip_weighted_sum(_, _)
zip_weighted_sum(scores, weights) ==
    IF scores = <<>> \/ weights = <<>> THEN 0
    ELSE Head(scores) * Head(weights) + zip_weighted_sum(Tail(scores), Tail(weights))

SeqMax(s) == CHOOSE x \in Range(s) : \A y \in Range(s) : x >= y

\* ScoreNormalizer.combine_scores.  scores in whole points; weights is
\* [given |-> FALSE] for None, [given |-> TRUE, list |-> ..] otherwise.
\* The value returned is num/den, or its square root when root is TRUE;
\* raised is the ValueError of an unknown method.
combine_scores(scores, method, weights) ==
    LET value(n, d, r) == [raised |-> FALSE, num |-> n, den |-> d, root |-> r]
    IN  IF scores = <<>> THEN value(0, 1, FALSE)
        ELSE IF method = "mean" THEN value(SeqSum(scores), Len(scores), FALSE)
        ELSE IF method = "weighted"
             THEN LET w == IF weights.given THEN weights.list
                           ELSE [i \in 1..Len(scores) |-> 1]
                      total_weight == SeqSum(w)
                  IN  IF total_weight = 0 THEN value(0, 1, FALSE)
                      ELSE value(zip_weighted_sum(scores, w), total_weight, FALSE)
        ELSE IF method = "max" THEN value(SeqMax(scores), 1, FALSE)
        ELSE IF method = "rms"
             THEN value(SeqSum([i \in 1..Len(scores) |-> scores[i] * scores[i]]),
                        Len(scores), TRUE)
        ELSE [raised |-> TRUE, num |-> 0, den |-> 1, root |-> FALSE]

-----------------------------------------------------------------------------
(* core/observability.py: MetricsCollector *)

\* "Keep last 1000 scores"
SCORES_KEPT == 1000

\* a faulty variant of track_detection_score: nothing is ever dropped
track_detection_score_unbounded(m, score) ==
    [m EXCEPT !.detection_scores = Append(@, score)]

track_detection_score(m, score) ==
    [m EXCEPT !.detection_scores =
        Append(IF Len(@) >= SCORES_KEPT THEN Tail(@) ELSE @, score)]

track_alert_created(m) == [m EXCEPT !.alerts_created = @ + 1]

\* the collector as constructed
fresh_metrics == [detection_scores |-> <<>>, alerts_created |-> 0]

\* The collector is one global of the process and outlives engines and
\* batches: it may already hold the scores of n earlier calls.  The earlier
\* scores are numbered, 60 + (i % 40) points for number i, and each of them
\* raised an alert.
prior_score(i) == [num |-> Pts(60 + (i % 40)), den |-> 1]

prior_metrics(n) ==
    [detection_scores |-> [i \in 1..Min(n, SCORES_KEPT) |->
                              prior_score(i + n - Min(n, SCORES_KEPT))],
     alerts_created |-> n]

PriorCalls == {0, SCORES_KEPT - 1, SCORES_KEPT}

-----------------------------------------------------------------------------
(* detection/engine.py: DetectionEngine *)

MaxBatch == 2

\* registration order of DetectionEngine.__init__
DETECTORS == <<"statistical", "behavioral", "ml">>

\* values of random.uniform(-5, 5) in MLDetector._predict, in score units
NoiseDraws == {0 - Pts(5), 617, Pts(5)}

\* a faulty variant of neutral_result: confidence left at the dataclass default 1.0
neutral_result_default_confidence ==
    DetectionResult(Pts(50), ConfUnit, <<"Detector unavailable">>)

\* the result substituted for a detector that raised
neutral_result == DetectionResult(Pts(50), 0, <<"Detector unavailable">>)

run_detector(name, f, noise) ==
    IF name = "statistical" THEN statistical_detect(f)
    ELSE IF name = "behavioral" THEN behavioral_detect(f)
    ELSE ml_detect(f, noise, load_model)

QuietDraws ==
    [is_new_destination |-> FALSE, is_new_channel |-> FALSE,
     frequency_zscore |-> 50, time_pattern_deviation |-> 20,
     is_new_geo_location |-> FALSE, location_distance_km |-> 0,
     account_age_days |-> 400, hourly_transaction_count |-> 1,
     is_new_device |-> FALSE, ml_noise |-> 617]

AlarmingDraws ==
    [is_new_destination |-> TRUE, is_new_channel |-> FALSE,
     frequency_zscore |-> 250, time_pattern_deviation |-> 60,
     is_new_geo_location |-> TRUE, location_distance_km |-> 1500,
     account_age_days |-> 12, hourly_transaction_count |-> 8,
     is_new_device |-> TRUE, ml_noise |-> 0 - Pts(5)]

MixedDraws ==
    [is_new_destination |-> TRUE, is_new_channel |-> TRUE,
     frequency_zscore |-> 0 - 100, time_pattern_deviation |-> 20,
     is_new_geo_location |-> FALSE, location_distance_km |-> 900,
     account_age_days |-> 400, hourly_transaction_count |-> 6,
     is_new_device |-> FALSE, ml_noise |-> Pts(5)]

\* TransactionInput values the batches are drawn from.  The amounts are off
\* the rounding ties of round(.., 2), where binary64 and exact values differ.
BatchCatalog ==
    { [transaction_id |-> "txn-quiet", amount |-> 540,
       timestamp |-> {[hour |-> 14, weekday |-> 2, day |-> 11, month |-> 6]},
       geo_location |-> "US", historical_transactions |-> <<480, 610>>,
       rnd |-> QuietDraws],
      [transaction_id |-> "txn-large", amount |-> 45230,
       timestamp |-> {[hour |-> 3, weekday |-> 6, day |-> 28, month |-> 11]},
       geo_location |-> "XX", historical_transactions |-> <<>>,
       rnd |-> AlarmingDraws],
      [transaction_id |-> "txn-large-quiet", amount |-> 45230,
       timestamp |-> {[hour |-> 14, weekday |-> 2, day |-> 11, month |-> 6]},
       geo_location |-> "US", historical_transactions |-> <<480>>,
       rnd |-> QuietDraws],
      [transaction_id |-> "txn-mid", amount |-> 12004,
       timestamp |-> {[hour |-> 10, weekday |-> 4, day |-> 2, month |-> 1]},
       geo_location |-> "DE", historical_transactions |-> <<11000>>,
       rnd |-> MixedDraws],
      [transaction_id |-> "txn-malformed", amount |-> 90,
       timestamp |-> {},
       geo_location |-> "", historical_transactions |-> <<>>,
       rnd |-> QuietDraws] }

\* A transaction processed on its own.  Its ML noise draw (-0.425) puts the
\* composite of the default engine just below 50, at 49.9966.
BoundaryTransaction ==
    [transaction_id |-> "txn-boundary", amount |-> 9000,
     timestamp |-> {[hour |-> 3, weekday |-> 1, day |-> 11, month |-> 6]},
     geo_location |-> "XX", historical_transactions |-> <<>>,
     rnd |-> [QuietDraws EXCEPT !.ml_noise = 0 - 850]]

\* constructor arguments: an omitted argument is the empty sequence / the
\* empty function (None; an empty dict is falsy as well)
EngineArgs ==
    { [risk_threshold_alert |-> <<>>, detector_weights |-> <<>>],
      [risk_threshold_alert |-> <<Pts(70)>>,
       detector_weights |-> [statistical |-> WeightUnit \div 2, ml |-> WeightUnit \div 2]] }

\* DetectionEngine.__init__
init_risk_threshold_alert(args) ==
    IF args.risk_threshold_alert = <<>> THEN Pts(50) ELSE args.risk_threshold_alert[1]

init_detector_weights(args) ==
    IF DOMAIN args.detector_weights = {} THEN DEFAULT_ENGINE_WEIGHTS
    ELSE args.detector_weights

\* the transactions of the batches that run on a collector already in use
MetricsCatalog ==
    {tx \in BatchCatalog :
        tx.transaction_id \in {"txn-quiet", "txn-large", "txn-malformed"}}

BoundedSeq(S, n) == UNION {[1..k -> S] : k \in 0..n}

NoProbe == [op |-> "none"]

Init ==
    /\ ctor_args \in EngineArgs
    /\ risk_threshold_alert = init_risk_threshold_alert(ctor_args)
    /\ detector_weights = init_detector_weights(ctor_args)
    /\ transactions \in BoundedSeq(BatchCatalog, MaxBatch) \cup {<<BoundaryTransaction>>}
    /\ pos = 1
    /\ pc = "loop"
    /\ features = <<>>
    /\ detector_results = <<>>
    /\ composite_score = [num |-> 0, den |-> 1]
    /\ results = <<>>
    /\ returned = <<>>
    /\ raised = FALSE
    /\ invoked = <<>>
    /\ faults = <<>>
    /\ metrics \in {prior_metrics(n) : n \in PriorCalls}
    /\ metrics # fresh_metrics =>
          /\ ctor_args.detector_weights = <<>>
          /\ \A i \in 1..Len(transactions) : transactions[i] \in MetricsCatalog
    /\ probe = NoProbe
    /\ outcome = 0

\* a faulty variant of alert_decision: strictly above the threshold
alert_decision_strict(composite, threshold) == ~RatLE(composite, threshold)

\* should_alert = composite_score >= self.risk_threshold_alert
alert_decision(composite, threshold) == RatGE(composite, threshold)

\* a faulty variant of collect_explanations: the last detector's list first
collect_explanations_reversed(dres) ==
    Flatten([i \in 1..Len(dres) |-> dres[Len(dres) + 1 - i].explanations])

\* explanations.extend(result.explanations) over detector_results.values()
collect_explanations(dres) ==
    Flatten([i \in 1..Len(dres) |-> dres[i].explanations])

\* DetectionOutput (processing_time_ms is left out)
DetectionOutput(tx, composite, dres, f, threshold) ==
    [transaction_id |-> tx.transaction_id,
     risk_score |-> round2(composite),
     severity |-> get_severity(composite),
     should_alert |-> alert_decision(composite, threshold),
     detector_scores |-> [i \in 1..Len(dres) |->
                             [name |-> dres[i].name, score |-> dres[i].score]],
     feature_values |-> f,
     explanations |-> collect_explanations(dres)]

\* process_transaction up to the first await: extract_features returns
Extract ==
    /\ pc = "loop"
    /\ pos <= Len(transactions)
    /\ ~extraction_raises(transactions[pos])
    /\ features' = extract_features(transactions[pos])
    /\ detector_results' = <<>>
    /\ invoked' = Append(invoked, <<>>)
    /\ faults' = Append(faults, {})
    /\ pc' = "detect"
    /\ UNCHANGED <<ctor_args, risk_threshold_alert, detector_weights, transactions, pos,
                   composite_score, results, returned, raised, metrics, probe, outcome>>

\* a faulty variant of ExtractRaises: the outer except swallows the error and a
\* neutral output is returned for the transaction
ExtractRaisesSwallowed ==
    /\ pc = "loop"
    /\ pos <= Len(transactions)
    /\ extraction_raises(transactions[pos])
    /\ invoked' = Append(invoked, <<>>)
    /\ faults' = Append(faults, {})
    /\ results' = Append(results,
                         [transaction_id |-> transactions[pos].transaction_id,
                          risk_score |-> 50 * 100, severity |-> "MEDIUM",
                          should_alert |-> TRUE, detector_scores |-> <<>>,
                          feature_values |-> <<>>, explanations |-> <<>>])
    /\ pos' = pos + 1
    /\ UNCHANGED <<ctor_args, risk_threshold_alert, detector_weights, transactions,
                   pc, features, detector_results, composite_score, returned,
                   raised, metrics, probe, outcome>>

\* a faulty variant of ExtractRaises: batch_process hands back the outputs it
\* has collected when a call fails
ExtractRaisesReturnsPartial ==
    /\ pc = "loop"
    /\ pos <= Len(transactions)
    /\ extraction_raises(transactions[pos])
    /\ invoked' = Append(invoked, <<>>)
    /\ faults' = Append(faults, {})
    /\ raised' = TRUE
    /\ returned' = results
    /\ pc' = "raised"
    /\ UNCHANGED <<ctor_args, risk_threshold_alert, detector_weights, transactions, pos,
                   features, detector_results, composite_score, results,
                   metrics, probe, outcome>>

\* extract_features raises: the outer except re-raises, batch_process is left
ExtractRaises ==
    /\ pc = "loop"
    /\ pos <= Len(transactions)
    /\ extraction_raises(transactions[pos])
    /\ invoked' = Append(invoked, <<>>)
    /\ faults' = Append(faults, {})
    /\ raised' = TRUE
    /\ pc' = "raised"
    /\ UNCHANGED <<ctor_args, risk_threshold_alert, detector_weights, transactions, pos,
                   features, detector_results, composite_score, results,
                   returned, metrics, probe, outcome>>

\* a faulty variant of next_pc: a neutral result ends the detector loop
next_pc_cancel_on_failure(dres) ==
    IF Len(dres) = Len(DETECTORS) \/ dres[Len(dres)].confidence = 0
    THEN "tail" ELSE "detect"

\* the detector loop goes on until every registered detector has a result
next_pc(dres) == IF Len(dres) = Len(DETECTORS) THEN "tail" ELSE "detect"

\* one iteration of the detector loop: detect returns
DetectReturns ==
    /\ pc = "detect"
    /\ LET d == DETECTORS[Len(invoked[pos]) + 1]
           noise == transactions[pos].rnd.ml_noise
       IN  /\ detector_results' =
                 dict_set(detector_results, d, Entry(d, run_detector(d, features, noise)))
           /\ invoked' = [invoked EXCEPT ![pos] = Append(@, d)]
           /\ pc' = next_pc(detector_results')
    /\ UNCHANGED <<ctor_args, risk_threshold_alert, detector_weights, transactions, pos,
                   features, composite_score, results, returned, raised,
                   faults, metrics, probe, outcome>>

\* one iteration of the detector loop: detect raises, the neutral result is stored
DetectRaises ==
    /\ pc = "detect"
    /\ LET d == DETECTORS[Len(invoked[pos]) + 1]
       IN  /\ detector_results' = dict_set(detector_results, d, Entry(d, neutral_result))
           /\ invoked' = [invoked EXCEPT ![pos] = Append(@, d)]
           /\ faults' = [faults EXCEPT ![pos] = @ \cup {d}]
           /\ pc' = next_pc(detector_results')
    /\ UNCHANGED <<ctor_args, risk_threshold_alert, detector_weights, transactions, pos,
                   features, composite_score, results, returned, raised,
                   metrics, probe, outcome>>

\* a faulty variant of batch_append: the newest result is put first
batch_prepend(list, result) == <<result>> \o list

\* results.append(result) in batch_process
batch_append(list, result) == Append(list, result)

\* "Track metrics": the composite, and the alert if should_alert
track_metrics(m, composite, threshold) ==
    IF alert_decision(composite, threshold)
    THEN track_alert_created(track_detection_score(m, composite))
    ELSE track_detection_score(m, composite)

\* steps 3 and 4, the metrics, the output, and batch_process appending it
Complete ==
    /\ pc = "tail"
    /\ composite_score' = aggregate_scores(detector_results, detector_weights)
    /\ metrics' = track_metrics(metrics, composite_score', risk_threshold_alert)
    /\ results' = batch_append(results,
                               DetectionOutput(transactions[pos], composite_score',
                                               detector_results, features,
                                               risk_threshold_alert))
    /\ pos' = pos + 1
    /\ pc' = "loop"
    /\ UNCHANGED <<ctor_args, risk_threshold_alert, detector_weights, transactions,
                   features, detector_results, returned, raised, invoked,
                   faults, probe, outcome>>

\* batch_process: the loop is over, the list is returned
BatchReturn ==
    /\ pc = "loop"
    /\ pos > Len(transactions)
    /\ returned' = results
    /\ pc' = "returned"
    /\ UNCHANGED <<ctor_args, risk_threshold_alert, detector_weights, transactions, pos,
                   features, detector_results, composite_score, results,
                   raised, invoked, faults, metrics, probe, outcome>>

Next ==
    \/ Extract
    \/ ExtractRaises
    \/ DetectReturns
    \/ DetectRaises
    \/ Complete
    \/ BatchReturn

Spec == Init /\ [][Next]_vars

-----------------------------------------------------------------------------
(* Concurrent calls: several process_transaction coroutines on one engine,  *)
(* interleaved at their await points (extract_features, each detect).       *)
(* transactions[i] is the argument of task i.  The locals of a call exist   *)
(* once per task: here pc, features, detector_results, composite_score and  *)
(* results are sequences indexed by task, results[i] holding the output of  *)
(* task i once it has returned.  The engine's attributes are shared.        *)

MaxTasks == 2

ConcCatalog == MetricsCatalog

InitConc ==
    /\ ctor_args = [risk_threshold_alert |-> <<>>, detector_weights |-> <<>>]
    /\ risk_threshold_alert = init_risk_threshold_alert(ctor_args)
    /\ detector_weights = init_detector_weights(ctor_args)
    /\ transactions \in UNION {[1..n -> ConcCatalog] : n \in 1..MaxTasks}
    /\ pos = 1
    /\ pc = [i \in 1..Len(transactions) |-> "start"]
    /\ features = [i \in 1..Len(transactions) |-> <<>>]
    /\ detector_results = [i \in 1..Len(transactions) |-> <<>>]
    /\ composite_score = [i \in 1..Len(transactions) |-> [num |-> 0, den |-> 1]]
    /\ results = [i \in 1..Len(transactions) |-> <<>>]
    /\ returned = <<>>
    /\ raised = FALSE
    /\ invoked = [i \in 1..Len(transactions) |-> <<>>]
    /\ faults = [i \in 1..Len(transactions) |-> {}]
    /\ metrics = fresh_metrics
    /\ probe = NoProbe
    /\ outcome = 0

\* a faulty variant of call_features: the features are kept in one place
\* for all calls, the last task's
call_features_shared(fs, i) == fs[Len(fs)]

\* the local variable features of task i, as read by detector.detect(features)
call_features(fs, i) == fs[i]

\* task i: extract_features returns
ConcExtract(i) ==
    /\ pc[i] = "start"
    /\ ~extraction_raises(transactions[i])
    /\ features' = [features EXCEPT ![i] = extract_features(transactions[i])]
    /\ detector_results' = [detector_results EXCEPT ![i] = <<>>]
    /\ pc' = [pc EXCEPT ![i] = "detect"]
    /\ UNCHANGED <<ctor_args, risk_threshold_alert, detector_weights, transactions, pos,
                   composite_score, results, returned, raised, invoked, faults,
                   metrics, probe, outcome>>

\* task i: extract_features raises, the call re-raises
ConcExtractRaises(i) ==
    /\ pc[i] = "start"
    /\ extraction_raises(transactions[i])
    /\ pc' = [pc EXCEPT ![i] = "raised"]
    /\ UNCHANGED <<ctor_args, risk_threshold_alert, detector_weights, transactions, pos,
                   features, detector_results, composite_score, results,
                   returned, raised, invoked, faults, metrics, probe, outcome>>

\* task i: the next detector returns
ConcDetectReturns(i) ==
    /\ pc[i] = "detect"
    /\ LET d == DETECTORS[Len(invoked[i]) + 1]
           noise == transactions[i].rnd.ml_noise
           dres == dict_set(detector_results[i], d,
                            Entry(d, run_detector(d, call_features(features, i), noise)))
       IN  /\ detector_results' = [detector_results EXCEPT ![i] = dres]
           /\ invoked' = [invoked EXCEPT ![i] = Append(@, d)]
           /\ pc' = [pc EXCEPT ![i] = next_pc(dres)]
    /\ UNCHANGED <<ctor_args, risk_threshold_alert, detector_weights, transactions, pos,
                   features, composite_score, results, returned, raised,
                   faults, metrics, probe, outcome>>

\* task i: the next detector raises, the neutral result is stored
ConcDetectRaises(i) ==
    /\ pc[i] = "detect"
    /\ LET d == DETECTORS[Len(invoked[i]) + 1]
           dres == dict_set(detector_results[i], d, Entry(d, neutral_result))
       IN  /\ detector_results' = [detector_results EXCEPT ![i] = dres]
           /\ invoked' = [invoked EXCEPT ![i] = Append(@, d)]
           /\ faults' = [faults EXCEPT ![i] = @ \cup {d}]
           /\ pc' = [pc EXCEPT ![i] = next_pc(dres)]
    /\ UNCHANGED <<ctor_args, risk_threshold_alert, detector_weights, transactions, pos,
                   features, composite_score, results, returned, raised,
                   metrics, probe, outcome>>

\* task i: steps 3 and 4 and the output; no await in between
ConcComplete(i) ==
    /\ pc[i] = "tail"
    /\ LET composite == aggregate_scores(detector_results[i], detector_weights)
       IN  /\ composite_score' = [composite_score EXCEPT ![i] = composite]
           /\ metrics' = track_metrics(metrics, composite, risk_threshold_alert)
           /\ results' = [results EXCEPT ![i] =
                             <<DetectionOutput(transactions[i], composite,
                                               detector_results[i],
                                               call_features(features, i),
                                               risk_threshold_alert)>>]
    /\ pc' = [pc EXCEPT ![i] = "done"]
    /\ UNCHANGED <<ctor_args, risk_threshold_alert, detector_weights, transactions, pos,
                   features, detector_results, returned, raised, invoked,
                   faults, probe, outcome>>

NextConc ==
    \E i \in 1..Len(transactions) :
        \/ ConcExtract(i)
        \/ ConcExtractRaises(i)
        \/ ConcDetectReturns(i)
        \/ ConcDetectRaises(i)
        \/ ConcComplete(i)

SpecConc == InitConc /\ [][NextConc]_vars

-----------------------------------------------------------------------------
(* Function-level specifications: one call of a pure function per behaviour, *)
(* its inputs drawn from bounded sets.  probe records the call, outcome the  *)
(* value returned.                                                           *)

EngineIdle ==
    /\ ctor_args = [risk_threshold_alert |-> <<>>, detector_weights |-> <<>>]
    /\ risk_threshold_alert = init_risk_threshold_alert(ctor_args)
    /\ detector_weights = init_detector_weights(ctor_args)
    /\ transactions = <<>>
    /\ pos = 1
    /\ pc = "loop"
    /\ features = <<>>
    /\ detector_results = <<>>
    /\ composite_score = [num |-> 0, den |-> 1]
    /\ results = <<>>
    /\ returned = <<>>
    /\ raised = FALSE
    /\ invoked = <<>>
    /\ faults = <<>>
    /\ metrics = fresh_metrics

InitFn == EngineIdle /\ probe = NoProbe /\ outcome = 0

Restrict(v, keys) == [k \in keys |-> v[k]]

(* Detectors: any subset of the keys a detector reads, any values *)

StatKeys == {"amount", "amount_zscore", "is_unusual_hour",
             "hourly_transaction_count", "geo_risk_score", "is_new_device"}

StatValues ==
    [amount : {0 - 50, 10002, 250000},
     amount_zscore : {0 - 450, 301, 5466},
     is_unusual_hour : {TRUE},
     hourly_transaction_count : {0 - 3, 6, 40},
     geo_risk_score : {51, 85, 900},
     is_new_device : {TRUE}]

BehKeys == {"amount_pct_from_avg", "is_new_destination", "is_new_channel",
            "time_pattern_deviation", "frequency_zscore", "is_new_geo_location",
            "location_distance_km", "account_age_days", "has_historical_data"}

BehValues ==
    [amount_pct_from_avg : {0 - 6400, 20002, 291534},
     is_new_destination : {TRUE},
     is_new_channel : {TRUE},
     time_pattern_deviation : {51, 700},
     frequency_zscore : {0 - 350, 250},
     is_new_geo_location : {TRUE},
     location_distance_km : {501, 9000},
     account_age_days : {12, 0 - 4},
     has_historical_data : {TRUE}]

MlKeys == {"amount_zscore", "is_unusual_hour", "hourly_transaction_count",
           "geo_risk_score", "is_new_device", "is_new_destination",
           "frequency_zscore", "account_age_days"}

MlValues ==
    [amount_zscore : {0 - 450, 151, 241, 5466},
     is_unusual_hour : {TRUE},
     hourly_transaction_count : {7, 8, 40},
     geo_risk_score : {70, 71, 900},
     is_new_device : {TRUE},
     is_new_destination : {TRUE},
     frequency_zscore : {250},
     account_age_days : {12}]

ProbeStatistical ==
    /\ probe.op = "none"
    /\ \E present \in SUBSET StatKeys, v \in StatValues :
          LET f == Restrict(v, present)
          IN  /\ probe' = [op |-> "statistical", features |-> f]
              /\ outcome' = statistical_detect(f)
    /\ UNCHANGED engine_vars

ProbeBehavioral ==
    /\ probe.op = "none"
    /\ \E present \in SUBSET BehKeys, v \in BehValues :
          LET f == Restrict(v, present)
          IN  /\ probe' = [op |-> "behavioral", features |-> f]
              /\ outcome' = behavioral_detect(f)
    /\ UNCHANGED engine_vars

ProbeMl ==
    /\ probe.op = "none"
    /\ \E present \in SUBSET MlKeys, v \in MlValues, noise \in NoiseDraws,
          model_loaded \in BOOLEAN :
          LET f == Restrict(v, present)
          IN  /\ probe' = [op |-> "ml", features |-> f, noise |-> noise,
                           model_loaded |-> model_loaded]
              /\ outcome' = ml_detect(f, noise, model_loaded)
    /\ UNCHANGED engine_vars

NextDetect == ProbeStatistical \/ ProbeBehavioral \/ ProbeMl

SpecDetect == InitFn /\ [][NextDetect]_vars

(* Aggregation: any mapping of detector results, any weight map, any order *)

MaxEntries == 3

\* detector names a result mapping may hold; "extra" has no weight anywhere
AggNames == <<"statistical", "behavioral", "ml", "extra">>

AggScores == {0, 66672, Pts(100)}
AggConfidences == {0, ConfUnit \div 3, ConfUnit}

AggWeightMaps ==
    { DEFAULT_ENGINE_WEIGHTS,
      [statistical |-> WeightUnit],
      [behavioral |-> WeightUnit \div 2, ml |-> WeightUnit] }

\* the mappings over at most MaxEntries names, in the order of AggNames
ResultMappings ==
    UNION { [S -> [score : AggScores, confidence : AggConfidences]] :
            S \in {T \in SUBSET Range(AggNames) : Cardinality(T) <= MaxEntries} }

AsDict(m) ==
    LET present == SelectSeq(AggNames, LAMBDA n : n \in DOMAIN m)
    IN  [i \in 1..Len(present) |->
            [name |-> present[i], score |-> m[present[i]].score,
             confidence |-> m[present[i]].confidence, explanations |-> <<>>]]

Orders(n) == {p \in [1..n -> 1..n] : \A i, j \in 1..n : p[i] = p[j] => i = j}

Permuted(d, p) == [i \in 1..Len(d) |-> d[p[i]]]

ConfidenceMap(d) == [n \in {d[i].name : i \in 1..Len(d)} |->
                        (CHOOSE e \in Range(d) : e.name = n).confidence]

\* DetectionEngine._aggregate_scores on a mapping
ProbeAggregate ==
    /\ probe.op = "none"
    /\ \E m \in ResultMappings, w \in AggWeightMaps :
          /\ probe' = [op |-> "aggregate_scores", dict |-> AsDict(m), weights |-> w]
          /\ outcome' = aggregate_scores(AsDict(m), w)
    /\ UNCHANGED engine_vars

\* weights a RiskScorer is constructed with: omitted, summing to 1.0, and
\* summing to 2.0 (normalised by _validate_weights to 0.25, 0.25 and 0.5)
ScorerWeightMaps ==
    { <<>>,
      [statistical |-> WeightUnit],
      [statistical |-> WeightUnit \div 2, behavioral |-> WeightUnit \div 2,
       ml |-> WeightUnit] }

\* a confidence map whose keys are not those of the scores: "statistical" is
\* left out and "ml" is there whether scored or not
ForeignConfidenceMap(d) ==
    LET names == {d[i].name : i \in 1..Len(d)}
    IN  [n \in (names \ {"statistical"}) \cup {"ml"} |->
            IF n \in names THEN ConfidenceMap(d)[n] ELSE ConfUnit \div 3]

\* the confidences argument: one entry per score, omitted (None), or a map
\* over other keys
ConfidenceArgs(d) == {ConfidenceMap(d), <<>>, ForeignConfidenceMap(d)}

\* RiskScorer(weights).calculate_composite_score(scores, confidences)
ProbeScorer ==
    /\ probe.op = "none"
    /\ \E m \in ResultMappings, w \in ScorerWeightMaps :
          \E c \in ConfidenceArgs(AsDict(m)) :
              /\ probe' = [op |-> "calculate_composite_score", dict |-> AsDict(m),
                           confidences |-> c, weights |-> validate_weights(w)]
              /\ outcome' = calculate_composite_score(AsDict(m), c, validate_weights(w))
    /\ UNCHANGED engine_vars

NextAgg == ProbeAggregate \/ ProbeScorer

SpecAgg == InitFn /\ [][NextAgg]_vars

(* Scores: severity of a composite, business rules on a base score *)

\* composites in thousandths of a point, 0.000 .. 100.000
SeverityInputs == 0..(100 * 1000)

\* base scores in whole points, some below 0 and some above 100
RuleBaseScores == {Pts(n) : n \in (0 - 20)..130}

RuleContexts ==
    [is_vip_customer : BOOLEAN, matches_known_pattern : BOOLEAN,
     verified_merchant : BOOLEAN, high_risk_country : BOOLEAN]

ProbeSeverity ==
    /\ probe.op = "none"
    /\ \E h \in SeverityInputs :
          /\ probe' = [op |-> "get_severity", thousandths |-> h]
          /\ outcome' = get_severity([num |-> h * (ScoreUnit \div 1000), den |-> 1])
    /\ UNCHANGED engine_vars

ProbeRules ==
    /\ probe.op = "none"
    /\ \E b \in RuleBaseScores, ctx \in RuleContexts :
          /\ probe' = [op |-> "apply_business_rules", base_score |-> b, ctx |-> ctx]
          /\ outcome' = apply_business_rules(b, ctx)
    /\ UNCHANGED engine_vars

\* custom weights in 1/WeightFine: 0.005 apart, so that totals within 0.01
\* of 1.0 occur
WeightFine == 10 * WeightUnit

FineWeights == {0 - 100, 0, 50, 70, 71, 80, 130, 200}

\* weight maps over any subset of the three detector names; the empty map
\* is the omitted argument
CustomWeightMaps ==
    UNION { [S -> FineWeights] : S \in SUBSET {"statistical", "behavioral", "ml"} }

\* RiskScorer(weights)
ProbeScorerInit ==
    /\ probe.op = "none"
    /\ \E w \in CustomWeightMaps :
          /\ probe' = [op |-> "scorer_init", weights |-> w]
          /\ outcome' = scorer_init(w, WeightFine)
    /\ UNCHANGED engine_vars

\* score lists of combine_scores, method names (known and unknown), and
\* the weights argument
CombineScoreLists == BoundedSeq({0, 30, 100}, 2)

CombineMethods == {"mean", "weighted", "max", "rms", "median", "MEAN", ""}

CombineWeights ==
    {[given |-> FALSE]} \cup
    {[given |-> TRUE, list |-> l] : l \in {<<>>, <<1>>, <<0, 0>>, <<1, 3>>}}

\* ScoreNormalizer.combine_scores(scores, method, weights)
ProbeCombine ==
    /\ probe.op = "none"
    /\ \E sc \in CombineScoreLists, m \in CombineMethods, w \in CombineWeights :
          /\ probe' = [op |-> "combine_scores", scores |-> sc, method |-> m,
                       weights |-> w]
          /\ outcome' = combine_scores(sc, m, w)
    /\ UNCHANGED engine_vars

\* RiskScorer.get_risk_level(score), on the scores of SeverityInputs
ProbeRiskLevel ==
    /\ probe.op = "none"
    /\ \E h \in SeverityInputs :
          /\ probe' = [op |-> "get_risk_level", thousandths |-> h]
          /\ outcome' = get_risk_level(h * (ScoreUnit \div 1000))
    /\ UNCHANGED engine_vars

NextScore ==
    ProbeSeverity \/ ProbeRules \/ ProbeScorerInit \/ ProbeCombine \/ ProbeRiskLevel

SpecScore == InitFn /\ [][NextScore]_vars

-----------------------------------------------------------------------------
(* Properties of the engine (Spec) *)

ScoreOf(out, name) ==
    (CHOOSE e \in Range(out.detector_scores) : e.name = name).score

\* C1: when extraction succeeded, whatever subset of the detectors raises in
\* detect, every detector is still invoked, each failed detector's entry is
\* the result (score 50, confidence 0, explanations ["Detector unavailable"]),
\* and the call returns a DetectionOutput: nothing is raised.
C1_DetectorFailureIsolated ==
    /\ pc \in {"detect", "tail"} =>
          /\ Len(detector_results) = Len(invoked[pos])
          /\ \A i \in 1..Len(invoked[pos]) :
                /\ invoked[pos][i] = DETECTORS[i]
                /\ detector_results[i].name = DETECTORS[i]
                /\ DETECTORS[i] \in faults[pos] =>
                      /\ detector_results[i].score = Pts(50)
                      /\ detector_results[i].confidence = 0
                      /\ detector_results[i].explanations = <<"Detector unavailable">>
    /\ pc = "tail" => invoked[pos] = DETECTORS
    /\ \A k \in 1..Len(results) :
          /\ invoked[k] = DETECTORS
          /\ Len(results[k].detector_scores) = Len(DETECTORS)
          /\ \A d \in faults[k] : ScoreOf(results[k], d) = Pts(50)
    /\ pc \in {"loop", "returned"} => Len(results) = pos - 1
    /\ raised => faults[pos] = {}

\* two of the three detectors raised and the output was returned all the same
C1_Witness ==
    /\ pc = "returned"
    /\ \E k \in 1..Len(returned) :
          /\ faults[k] = {"statistical", "ml"}
          /\ invoked[k] = DETECTORS
          /\ ScoreOf(returned[k], "behavioral") # Pts(50)

\* C4: in every output of process_transaction, should_alert is true exactly
\* when the composite score is at or above the configured alert threshold,
\* which is 50 when the constructor was given none.
C4_AlertIffAtOrAboveThreshold ==
    /\ ctor_args.risk_threshold_alert = <<>> => risk_threshold_alert = Pts(50)
    /\ ctor_args.risk_threshold_alert # <<>> =>
          risk_threshold_alert = ctor_args.risk_threshold_alert[1]
    /\ Len(results) > 0 =>
          (results[Len(results)].should_alert
              <=> composite_score.num >= risk_threshold_alert * composite_score.den)

\* an output whose composite is exactly the default threshold, and alerts
C4_Witness ==
    /\ Len(results) > 0
    /\ ctor_args.risk_threshold_alert = <<>>
    /\ composite_score.num = Pts(50) * composite_score.den
    /\ results[Len(results)].should_alert

\* what process_transaction returns for one transaction on its own, given
\* the detectors that raise for it
isolated_output(tx, failing) ==
    LET f == extract_features(tx)
        dres == [i \in 1..Len(DETECTORS) |->
                    Entry(DETECTORS[i],
                          IF DETECTORS[i] \in failing THEN neutral_result
                          ELSE run_detector(DETECTORS[i], f, tx.rnd.ml_noise))]
    IN  DetectionOutput(tx, aggregate_scores(dres, detector_weights), dres, f,
                        risk_threshold_alert)

\* C6: batch_process over N transactions whose extraction succeeds returns N
\* outputs, the i-th carrying the i-th input's transaction id; "Detector
\* unavailable" is among an output's explanations exactly when a detector
\* raised for that transaction, and every output is what the transaction
\* yields on its own, whatever happened to the others.
C6_BatchOrderAndIsolation ==
    pc = "returned" =>
        /\ Len(returned) = Len(transactions)
        /\ \A i \in 1..Len(returned) :
              /\ returned[i].transaction_id = transactions[i].transaction_id
              /\ ("Detector unavailable" \in Range(returned[i].explanations))
                    <=> faults[i] # {}
              /\ returned[i] = isolated_output(transactions[i], faults[i])

\* a batch of two different transactions, a detector raising for the second only
C6_Witness ==
    /\ pc = "returned"
    /\ Len(returned) >= 2
    /\ transactions[1].transaction_id # transactions[2].transaction_id
    /\ faults[1] = {}
    /\ faults[2] = {"behavioral"}
    /\ "Detector unavailable" \notin Range(returned[1].explanations)

\* C7: when feature extraction raises, process_transaction raises to its
\* caller, no detector has been invoked and no output exists for the
\* transaction.
C7_ExtractionFailurePropagates ==
    /\ raised =>
          /\ pc = "raised"
          /\ extraction_raises(transactions[pos])
          /\ invoked[pos] = <<>>
          /\ Len(results) = pos - 1
    /\ \A k \in 1..Len(invoked) :
          extraction_raises(transactions[k]) =>
              /\ raised
              /\ k = pos
              /\ invoked[k] = <<>>
              /\ Len(results) < k

\* the second transaction of a batch is malformed; the first was processed
C7_Witness ==
    /\ raised
    /\ pos = 2
    /\ Len(results) = 1
    /\ invoked[1] = DETECTORS

-----------------------------------------------------------------------------
(* Properties of the detectors (SpecDetect) *)

\* C2: for any subset of the feature keys and any values, and any noise
\* draw, each of the three detectors returns 0 <= score <= 100 and
\* 0 <= confidence <= 1.
C2_DetectorOutputsInRange ==
    probe.op \in {"statistical", "behavioral", "ml"} =>
        /\ outcome.score >= 0
        /\ outcome.score <= Pts(100)
        /\ outcome.confidence >= 0
        /\ outcome.confidence <= ConfUnit

\* the statistical contributions add up to more than 100 and are clamped
C2_Witness ==
    /\ probe.op = "statistical"
    /\ stat_raw_score(probe.features) > Pts(100)
    /\ outcome.score = Pts(100)

-----------------------------------------------------------------------------
(* Properties of the aggregation (SpecAgg) *)

\* weight of a detector name; a name absent from the weight map has weight 0
Wt(w, n) == IF n \in DOMAIN w THEN w[n] ELSE 0

EffectiveWeights(d, w) == [i \in 1..Len(d) |-> Wt(w, d[i].name) * d[i].confidence]

WeightedScores(d, w) == [i \in 1..Len(d) |-> d[i].score * EffectiveWeights(d, w)[i]]

\* the detectors with positive effective weight, and their extreme raw scores
Contributing(d, w) == {i \in 1..Len(d) : EffectiveWeights(d, w)[i] > 0}

MinRaw(d, w) ==
    CHOOSE s \in {d[i].score : i \in Contributing(d, w)} :
        \A i \in Contributing(d, w) : s <= d[i].score

MaxRaw(d, w) ==
    CHOOSE s \in {d[i].score : i \in Contributing(d, w)} :
        \A i \in Contributing(d, w) : s >= d[i].score

\* C3: the engine's composite is sum(score*weight*confidence) over
\* sum(weight*confidence), a detector absent from the weight map weighing 0;
\* it is exactly 50 when that denominator is zero, so exactly 50 when every
\* confidence is 0; and it is exactly the raw score of a detector that alone
\* has weight 1.0 and confidence 1.0.
C3_CompositeIsConfidenceWeightedAverage ==
    probe.op = "aggregate_scores" =>
        LET d == probe.dict
            w == probe.weights
            sum_swc == SetSum(1..Len(d), WeightedScores(d, w))
            sum_wc == SetSum(1..Len(d), EffectiveWeights(d, w))
        IN  /\ sum_wc # 0 => outcome = [num |-> sum_swc, den |-> sum_wc]
            /\ sum_wc = 0 => outcome.num = Pts(50) * outcome.den
            /\ (\A i \in 1..Len(d) : d[i].confidence = 0) =>
                   outcome.num = Pts(50) * outcome.den
            /\ \A i \in 1..Len(d) :
                   ( /\ Wt(w, d[i].name) = WeightUnit
                     /\ d[i].confidence = ConfUnit
                     /\ \A j \in 1..Len(d) : j # i => Wt(w, d[j].name) = 0 )
                   => outcome.num = d[i].score * outcome.den

\* three results, only one of them weighted (1.0, confidence 1.0): the
\* composite is its raw score 33.336, the others' scores do not count
C3_Witness ==
    /\ probe.op = "aggregate_scores"
    /\ probe.weights = [statistical |-> WeightUnit]
    /\ Len(probe.dict) = 3
    /\ \E i \in 1..3 :
          /\ probe.dict[i].name = "statistical"
          /\ probe.dict[i].confidence = ConfUnit
          /\ probe.dict[i].score = 66672
    /\ \E j \in 1..3 : probe.dict[j].score = Pts(100) /\ probe.dict[j].confidence = ConfUnit
    /\ outcome.num = 66672 * outcome.den

Reported(h) == [num |-> h * (ScoreUnit \div 100), den |-> 1]

InScoreRange(c) == RatGE(c, 0) /\ RatLE(c, Pts(100))

BetweenRawScores(c, d, w) ==
    Contributing(d, w) # {} => RatGE(c, MinRaw(d, w)) /\ RatLE(c, MaxRaw(d, w))

\* |h/100 - c| <= 0.005
RoundedFrom(h, c) ==
    Abs(h * (ScoreUnit \div 100) * c.den - c.num) * 2 <= (ScoreUnit \div 100) * c.den

\* the scores of a Risk Scorer call, each with the confidence the scorer uses
\* for it: the map's entry, 1.0 when the map is omitted or has no such key
ScorerView(d, confidences) ==
    [i \in 1..Len(d) |->
        [d[i] EXCEPT !.confidence =
            Get(scorer_confidences(d, confidences), d[i].name, ConfUnit)]]

\* C9 as stated: the reported composite (the engine's risk_score, the Risk
\* Scorer's composite_score) lies in [0,100] and, when some detector has
\* positive effective weight, between the smallest and the largest raw score
\* of those detectors.
C9_ReportedCompositeBetweenRawScores ==
    /\ probe.op = "aggregate_scores" =>
          LET r == Reported(round2(outcome))
          IN  InScoreRange(r) /\ BetweenRawScores(r, probe.dict, probe.weights)
    /\ (probe.op = "calculate_composite_score" /\ ~outcome.raised) =>
          LET r == Reported(outcome.composite_score)
          IN  /\ InScoreRange(r)
              /\ BetweenRawScores(r, ScorerView(probe.dict, probe.confidences),
                                  probe.weights)

\* C9 amended: the weighted average before rounding lies in [0,100] and
\* between the smallest and the largest raw score of the detectors with
\* positive effective weight; the reported risk_score and composite_score
\* lie in [0,100] and within 0.005 of that average.
C9_CompositeBetweenRawScoresBeforeRounding ==
    /\ probe.op = "aggregate_scores" =>
          /\ InScoreRange(outcome)
          /\ BetweenRawScores(outcome, probe.dict, probe.weights)
          /\ InScoreRange(Reported(round2(outcome)))
          /\ RoundedFrom(round2(outcome), outcome)
    /\ (probe.op = "calculate_composite_score" /\ ~outcome.raised) =>
          LET u == scorer_weighted_average(probe.dict, probe.confidences,
                                           probe.weights)
          IN  /\ InScoreRange(u)
              /\ BetweenRawScores(u, ScorerView(probe.dict, probe.confidences),
                                  probe.weights)
              /\ InScoreRange(Reported(outcome.composite_score))
              /\ RoundedFrom(outcome.composite_score, u)

\* detectors with different raw scores contribute, and the reported value
\* is not the weighted average itself
C9_Witness ==
    /\ probe.op = "calculate_composite_score"
    /\ ~outcome.raised
    /\ probe.confidences = ConfidenceMap(probe.dict)
    /\ Cardinality(Contributing(probe.dict, probe.weights)) >= 2
    /\ MinRaw(probe.dict, probe.weights) < MaxRaw(probe.dict, probe.weights)
    /\ LET u == scorer_weighted_average(probe.dict, probe.confidences,
                                        probe.weights)
       IN  Reported(outcome.composite_score).num * u.den # u.num

-----------------------------------------------------------------------------
(* Properties of severity and business rules (SpecScore) *)

\* C5: _get_severity maps every composite to exactly one of four tiers with
\* closed lower boundaries: >= 90 CRITICAL, 70 <= s < 90 HIGH, 50 <= s < 70
\* MEDIUM, < 50 LOW; so 90.0 is CRITICAL, 89.99 and 70.0 are HIGH and 49.99
\* is LOW.
C5_SeverityTiers ==
    probe.op = "get_severity" =>
        LET t == probe.thousandths
        IN  /\ outcome \in {"CRITICAL", "HIGH", "MEDIUM", "LOW"}
            /\ outcome = "CRITICAL" <=> t >= 90 * 1000
            /\ outcome = "HIGH" <=> (70 * 1000 <= t /\ t < 90 * 1000)
            /\ outcome = "MEDIUM" <=> (50 * 1000 <= t /\ t < 70 * 1000)
            /\ outcome = "LOW" <=> t < 50 * 1000
            /\ t = 90000 => outcome = "CRITICAL"
            /\ t = 89990 => outcome = "HIGH"
            /\ t = 70000 => outcome = "HIGH"
            /\ t = 49990 => outcome = "LOW"

\* the composite is exactly 70.0 and the tier is HIGH
C5_Witness ==
    /\ probe.op = "get_severity"
    /\ probe.thousandths = 70 * 1000
    /\ outcome = "HIGH"

\* C10: whenever the context has matches_known_pattern set, whatever the
\* other flags, apply_business_rules returns at least 80.
C10_KnownPatternFloor ==
    ( /\ probe.op = "apply_business_rules"
      /\ probe.base_score \in 0..Pts(100)
      /\ probe.ctx.matches_known_pattern ) =>
        outcome >= Pts(80) * RuleUnit

\* the four rules, each on a score in 1/RuleUnit of a score unit
RuleVip(x) == (x * 9) \div 10
RuleKnownPattern(x) == IF x >= Pts(80) * RuleUnit THEN x ELSE Pts(80) * RuleUnit
RuleVerifiedMerchant(x) == (x * 17) \div 20
RuleHighRiskCountry(x) ==
    IF x + Pts(15) * RuleUnit <= Pts(100) * RuleUnit
    THEN x + Pts(15) * RuleUnit ELSE Pts(100) * RuleUnit

ClampRule(x) ==
    IF x < 0 THEN 0 ELSE IF x > Pts(100) * RuleUnit THEN Pts(100) * RuleUnit ELSE x

\* C11: apply_business_rules applies the enabled rules in the order VIP
\* (x0.9), known pattern (raise to at least 80), verified merchant (x0.85),
\* high-risk country (+15 capped at 100), each on the result of the one
\* before; the result is in [0,100] for every base score and every
\* combination of flags; with no flag set it is the base score clamped to
\* [0,100].
C11_RulesComposeInFixedOrder ==
    probe.op = "apply_business_rules" =>
        LET ctx == probe.ctx
            s0 == probe.base_score * RuleUnit
            s1 == IF ctx.is_vip_customer THEN RuleVip(s0) ELSE s0
            s2 == IF ctx.matches_known_pattern THEN RuleKnownPattern(s1) ELSE s1
            s3 == IF ctx.verified_merchant THEN RuleVerifiedMerchant(s2) ELSE s2
            s4 == IF ctx.high_risk_country THEN RuleHighRiskCountry(s3) ELSE s3
        IN  /\ outcome = ClampRule(s4)
            /\ outcome >= 0
            /\ outcome <= Pts(100) * RuleUnit
            /\ ( /\ ~ctx.is_vip_customer
                 /\ ~ctx.matches_known_pattern
                 /\ ~ctx.verified_merchant
                 /\ ~ctx.high_risk_country ) => outcome = ClampRule(s0)

\* all four flags set on base score 60: 54, 80, 68, then 83
C11_Witness ==
    /\ probe.op = "apply_business_rules"
    /\ probe.base_score = Pts(60)
    /\ probe.ctx.is_vip_customer
    /\ probe.ctx.matches_known_pattern
    /\ probe.ctx.verified_merchant
    /\ probe.ctx.high_risk_country
    /\ outcome = Pts(83) * RuleUnit

-----------------------------------------------------------------------------
(* Properties of the Risk Scorer (SpecAgg) *)

\* sum(weight * confidence) of a Risk Scorer call
ScorerTotalEffectiveWeight(d, confidences, w) ==
    SetSum(1..Len(d), EffectiveWeights(ScorerView(d, confidences), w))

\* C12: whenever the total effective weight of a calculate_composite_score
\* call is zero (all confidences 0, only names without a weight, or no
\* detectors, with or without a confidence map), the call returns composite
\* score 50 and does not fail.
C12_ZeroEffectiveWeightReturnsNeutral ==
    ( /\ probe.op = "calculate_composite_score"
      /\ ScorerTotalEffectiveWeight(probe.dict, probe.confidences, probe.weights) = 0 )
    => (~outcome.raised /\ outcome.composite_score = 50 * 100)

-----------------------------------------------------------------------------
(* End-to-end properties of the engine (Spec) *)

\* an engine constructed without arguments: default weights and threshold
DefaultEngine == ctor_args = [risk_threshold_alert |-> <<>>, detector_weights |-> <<>>]

\* C13: for a transaction of amount 45,230 (scored against mean 1,500 and
\* std 800) on a default engine with no detector failing, whatever the other
\* features and the noise are, the statistical detector adds the capped 25
\* of the z-score rule, the composite exceeds 50 and should_alert is true.
C13_LargeAmountAlwaysAlerts ==
    \A k \in 1..Len(results) :
        (DefaultEngine /\ transactions[k].amount = 45230 /\ faults[k] = {}) =>
            /\ stat_zscore_contribution(results[k].feature_values) = Pts(25)
            /\ results[k].risk_score > 50 * 100
            /\ results[k].should_alert

-----------------------------------------------------------------------------
(* Overall confidence of the Risk Scorer (SpecAgg) *)

AssignedWeights(d, w) == [i \in 1..Len(d) |-> Wt(w, d[i].name)]

\* C14: the overall confidence of a returned ScoringResult is
\* sum(weight * confidence) / sum(weight) over the scored detectors, the
\* same detectors and confidences the composite is computed from (reported
\* to two decimals); so it is in [0,1], a detector without assigned weight
\* does not change it, and it is 1.0 when the confidence map is empty or
\* omitted.
C14_OverallConfidenceOverScoredDetectors ==
    (probe.op = "calculate_composite_score" /\ ~outcome.raised) =>
        LET d == ScorerView(probe.dict, probe.confidences)
            sum_wc == SetSum(1..Len(d), EffectiveWeights(d, probe.weights))
            sum_w == SetSum(1..Len(d), AssignedWeights(d, probe.weights))
        IN  /\ outcome.confidence >= 0
            /\ outcome.confidence <= 100
            /\ probe.confidences = <<>> => outcome.confidence = 100
            /\ sum_w > 0 =>
                  outcome.confidence = RoundHalfEven(sum_wc * 100, sum_w * ConfUnit)

-----------------------------------------------------------------------------
(* Weights of the Risk Scorer (SpecScore) *)

\* sum of the numerators of the scorer's weights (rationals over one
\* denominator)
NumeratorTotal(ws) == SetSum(DOMAIN ws, [k \in DOMAIN ws |-> ws[k].num])

SuppliedTotal(w) == SetSum(DOMAIN w, w)

SumsToOne(ws) ==
    /\ \A j, k \in DOMAIN ws : ws[j].den = ws[k].den
    /\ \A k \in DOMAIN ws : NumeratorTotal(ws) = ws[k].den

KeepsProportions(ws, w) ==
    /\ DOMAIN ws = DOMAIN w
    /\ \A j, k \in DOMAIN w : ws[j].num * ws[k].den * w[k] = ws[k].num * ws[j].den * w[j]

IsDefaultWeights(ws) ==
    /\ DOMAIN ws = DOMAIN DEFAULT_WEIGHTS
    /\ \A k \in DOMAIN ws : ws[k].num * WeightUnit = DEFAULT_WEIGHTS[k] * ws[k].den

\* C15 as stated: after construction with a custom weight map whose sum is
\* neither 0 nor 1.0, the scorer's weights sum to 1.0 and keep the supplied
\* proportions; with no custom map they are 0.25, 0.35, 0.40.
C15_WeightsNormalizedWheneverSumIsNotOne ==
    probe.op = "scorer_init" =>
        /\ ( /\ DOMAIN probe.weights # {}
             /\ SuppliedTotal(probe.weights) # 0
             /\ SuppliedTotal(probe.weights) # WeightFine ) =>
               /\ ~outcome.raised
               /\ SumsToOne(outcome.weights)
               /\ KeepsProportions(outcome.weights, probe.weights)
        /\ DOMAIN probe.weights = {} =>
               (~outcome.raised /\ IsDefaultWeights(outcome.weights))

\* C15 amended: the weights are normalised to sum 1.0, keeping their
\* proportions, when the supplied sum is non-zero and more than 0.01 away
\* from 1.0; a map whose sum is within 0.01 of 1.0 is kept as supplied; with
\* no custom map the weights are 0.25, 0.35, 0.40.
C15_WeightsNormalizedBeyondTolerance ==
    probe.op = "scorer_init" =>
        LET w == probe.weights
            total == SuppliedTotal(w)
            beyond == Abs(total - WeightFine) * 100 > WeightFine
        IN  /\ (DOMAIN w # {} /\ total # 0 /\ beyond) =>
                  /\ ~outcome.raised
                  /\ SumsToOne(outcome.weights)
                  /\ KeepsProportions(outcome.weights, w)
            /\ (DOMAIN w # {} /\ ~beyond) =>
                  /\ ~outcome.raised
                  /\ DOMAIN outcome.weights = DOMAIN w
                  /\ \A k \in DOMAIN w :
                        outcome.weights[k] = [num |-> w[k], den |-> WeightFine]
            /\ DOMAIN w = {} => (~outcome.raised /\ IsDefaultWeights(outcome.weights))

\* weights 0.25, 0.355, 0.40 sum to 1.005 and are kept as they are
C15_Witness ==
    /\ probe.op = "scorer_init"
    /\ probe.weights = [statistical |-> 50, behavioral |-> 71, ml |-> 80]
    /\ ~outcome.raised
    /\ outcome.weights["behavioral"] = [num |-> 71, den |-> WeightFine]

-----------------------------------------------------------------------------
(* Explanations of an output (Spec) *)

\* the explanation list one detector gives for an output's features, or
\* the substitute's when it failed
ExplanationsOf(name, k) ==
    IF name \in faults[k] THEN <<"Detector unavailable">>
    ELSE run_detector(name, results[k].feature_values,
                      transactions[k].rnd.ml_noise).explanations

\* C16: every output's explanations are the statistical detector's list,
\* then the behavioral detector's, then the ml detector's, each in the order
\* the detector gave it; a failed detector contributes exactly "Detector
\* unavailable" in its place.
C16_ExplanationsInRegistrationOrder ==
    \A k \in 1..Len(results) :
        results[k].explanations =
            ExplanationsOf("statistical", k) \o ExplanationsOf("behavioral", k)
                \o ExplanationsOf("ml", k)

\* the behavioral detector failed between two detectors that explain
C16_Witness ==
    \E k \in 1..Len(results) :
        /\ faults[k] = {"behavioral"}
        /\ Len(ExplanationsOf("statistical", k)) >= 2
        /\ Len(ExplanationsOf("ml", k)) >= 1
        /\ results[k].explanations[Len(ExplanationsOf("statistical", k)) + 1]
              = "Detector unavailable"
        /\ ExplanationsOf("statistical", k)[1] # ExplanationsOf("ml", k)[1]

-----------------------------------------------------------------------------
(* Score combination (SpecScore) *)

\* C17: combine_scores fails with a validation error for every method name
\* other than mean, weighted, max and rms, whatever the list of scores, the
\* empty list included.
C17_UnknownMethodRaises ==
    ( /\ probe.op = "combine_scores"
      /\ probe.method \notin {"mean", "weighted", "max", "rms"} )
    => outcome.raised

-----------------------------------------------------------------------------
(* The ML detector without a model (SpecDetect) *)

\* step 2 of process_transaction on a feature mapping, given the ML
\* detector's result: the three results in registration order
DetectorResultsWith(f, ml_result) ==
    <<Entry("statistical", statistical_detect(f)),
      Entry("behavioral", behavioral_detect(f)),
      Entry("ml", ml_result)>>

\* C18: when the model is not loaded, the ML detector returns score 50,
\* confidence 0 and the explanation "ML model unavailable" for every feature
\* mapping, and does not raise; aggregated by the engine, that result has
\* effective weight 0, so the composite is the confidence-weighted average
\* of the statistical and behavioral results alone.
C18_ModelUnavailableIsNeutral ==
    (probe.op = "ml" /\ ~probe.model_loaded) =>
        /\ outcome = DetectionResult(Pts(50), 0, <<"ML model unavailable">>)
        /\ LET dres == DetectorResultsWith(probe.features, outcome)
           IN  /\ EffectiveWeights(dres, DEFAULT_ENGINE_WEIGHTS)[3] = 0
               /\ aggregate_scores(dres, DEFAULT_ENGINE_WEIGHTS)
                     = aggregate_scores(SubSeq(dres, 1, 2), DEFAULT_ENGINE_WEIGHTS)

\* features on which a loaded model would score well above 50
C18_Witness ==
    /\ probe.op = "ml"
    /\ ~probe.model_loaded
    /\ predict_base_score(prepare_features(probe.features)) >= Pts(80)
    /\ outcome.score = Pts(50)
    /\ outcome.confidence = 0
    /\ ~RatLE(aggregate_scores(DetectorResultsWith(probe.features, outcome),
                               DEFAULT_ENGINE_WEIGHTS), Pts(50))

-----------------------------------------------------------------------------
(* Risk level of the Risk Scorer (SpecScore) *)

\* C19: get_risk_level maps every score to exactly one of five tiers: >= 90
\* CRITICAL, 70 <= s < 90 HIGH, 50 <= s < 70 MEDIUM, 30 <= s < 50 LOW, < 30
\* MINIMAL; the tier has the same name as the engine's severity for the
\* score exactly when the score is at least 30.
C19_RiskLevelTiers ==
    probe.op = "get_risk_level" =>
        LET t == probe.thousandths
            severity == get_severity([num |-> t * (ScoreUnit \div 1000), den |-> 1])
        IN  /\ outcome \in {"CRITICAL", "HIGH", "MEDIUM", "LOW", "MINIMAL"}
            /\ outcome = "CRITICAL" <=> t >= 90 * 1000
            /\ outcome = "HIGH" <=> (70 * 1000 <= t /\ t < 90 * 1000)
            /\ outcome = "MEDIUM" <=> (50 * 1000 <= t /\ t < 70 * 1000)
            /\ outcome = "LOW" <=> (30 * 1000 <= t /\ t < 50 * 1000)
            /\ outcome = "MINIMAL" <=> t < 30 * 1000
            /\ outcome = severity <=> t >= 30 * 1000

\* the score is exactly 30.0: LOW, as the engine's severity
C19_Witness ==
    /\ probe.op = "get_risk_level"
    /\ probe.thousandths = 30 * 1000
    /\ outcome = "LOW"

-----------------------------------------------------------------------------
(* Interleaved calls (SpecConc) *)

\* what detector number j of a call on tx yields, given the detectors that
\* raise for the call
IsolatedEntry(tx, failing, j) ==
    Entry(DETECTORS[j],
          IF DETECTORS[j] \in failing THEN neutral_result
          ELSE run_detector(DETECTORS[j], extract_features(tx), tx.rnd.ml_noise))

\* C20: however the calls on one engine are interleaved at their await
\* points, every call works on its own features and detector results: at
\* every moment they are what the call's own transaction gives, and the
\* output a call returns is the one it returns when it runs alone with the
\* same draws and the same detector failures.
C20_InterleavedCallsAreIndependent ==
    \A i \in 1..Len(transactions) :
        /\ pc[i] \in {"detect", "tail", "done"} =>
              /\ features[i] = extract_features(transactions[i])
              /\ Len(detector_results[i]) = Len(invoked[i])
              /\ \A j \in 1..Len(detector_results[i]) :
                    detector_results[i][j] =
                        IsolatedEntry(transactions[i], faults[i], j)
        /\ pc[i] = "done" =>
              results[i] = <<isolated_output(transactions[i], faults[i])>>
        /\ pc[i] # "done" => results[i] = <<>>

\* two calls on different transactions are both in their detector loops, at
\* different detectors, one of them with a failed detector
C20_Witness ==
    /\ Len(transactions) = 2
    /\ transactions[1].transaction_id # transactions[2].transaction_id
    /\ pc[1] = "detect"
    /\ pc[2] = "detect"
    /\ Len(invoked[1]) = 2
    /\ Len(invoked[2]) = 1
    /\ faults[1] = {"statistical"}
    /\ faults[2] = {}

\* both interleaved calls have returned, with different outputs
C20_BothReturned ==
    /\ Len(transactions) = 2
    /\ pc[1] = "done"
    /\ pc[2] = "done"
    /\ results[1][1].risk_score # results[2][1].risk_score

-----------------------------------------------------------------------------
(* Metrics recorded by the engine (Spec) *)

LastOf(s, n) == SubSeq(s, Max(1, Len(s) - n + 1), Len(s))

\* the composite of call number i of the batch, computed from its
\* transaction and the detectors that raised for it
CallComposite(i) ==
    aggregate_scores([j \in 1..Len(DETECTORS) |->
                         IsolatedEntry(transactions[i], faults[i], j)],
                     detector_weights)

AlertingOutputs == {i \in 1..Len(results) : results[i].should_alert}

\* C21: at every moment the recorded scores are the scores recorded before
\* the batch followed by the composite of every call that has returned an
\* output, one each and in call order, cut to the most recent 1000; the
\* alert count has grown by the number of returned outputs with should_alert
\* true; a call whose extraction failed has added nothing to either.
C21_MetricsFollowReturnedOutputs ==
    LET n == metrics.alerts_created - Cardinality(AlertingOutputs)
    IN  /\ n \in PriorCalls
        /\ Len(metrics.detection_scores) = Min(SCORES_KEPT, n + Len(results))
        /\ metrics.detection_scores =
              LastOf(prior_metrics(n).detection_scores \o
                         [i \in 1..Len(results) |-> CallComposite(i)],
                     SCORES_KEPT)

\* a batch on a collector that was one short of full has ended after two
\* calls returned, one alerting and one not: the oldest earlier score is gone
C21_Witness ==
    /\ MaxBatch >= 2
    /\ Len(results) = 2
    /\ Cardinality(AlertingOutputs) = 1
    /\ metrics.alerts_created = SCORES_KEPT
    /\ Len(metrics.detection_scores) = SCORES_KEPT
    /\ metrics.detection_scores[1] = prior_score(2)
    /\ pc \in {"returned", "raised"}

-----------------------------------------------------------------------------
(* Confidence of the Statistical detector (SpecDetect) *)

\* the fields whose presence the detector counts
StatTracked == {"amount", "amount_zscore", "hourly_transaction_count",
                "geo_risk_score"}

\* C22: the Statistical detector's confidence is one of 0, 1/3, 2/3 and 1,
\* it is one third for each tracked field present, and it is 1 only when
\* every tracked field is present.
C22_ConfidenceIsFractionOfTrackedFields ==
    probe.op = "statistical" =>
        LET present == StatTracked \cap DOMAIN probe.features
        IN  /\ outcome.confidence \in {0, ConfUnit \div 3, 2 * (ConfUnit \div 3), ConfUnit}
            /\ outcome.confidence = Cardinality(present) * (ConfUnit \div 3)
            /\ outcome.confidence = ConfUnit => present = StatTracked

-----------------------------------------------------------------------------
(* Score of the Statistical detector (SpecDetect) *)

\* C23: the Statistical detector's score is the clamped sum of the
\* contributions of its six rules, and for every feature value each
\* contribution is 0 when the rule is not triggered and otherwise within its
\* cap: amount at most 30, z-score at most 25, unusual hour 15, velocity at
\* most 20, geographic risk at most 20, new device 10.
C23_StatisticalContributionsBounded ==
    probe.op = "statistical" =>
        LET f == probe.features
        IN  /\ outcome.score = clamp_score(stat_raw_score(f))
            /\ stat_amount_contribution(f) \in 0..Pts(30)
            /\ stat_amount_contribution(f) > 0 <=>
                  Get(f, "amount", 0) > HIGH_AMOUNT_THRESHOLD
            /\ stat_zscore_contribution(f) \in 0..Pts(25)
            /\ stat_zscore_contribution(f) > 0 <=>
                  Abs(Get(f, "amount_zscore", 0)) > ZSCORE_THRESHOLD * 100
            /\ stat_hour_contribution(f) =
                  IF Get(f, "is_unusual_hour", FALSE) THEN Pts(15) ELSE 0
            /\ stat_velocity_contribution(f) \in 0..Pts(20)
            /\ stat_velocity_contribution(f) > 0 <=>
                  Get(f, "hourly_transaction_count", 0) > VELOCITY_THRESHOLD
            /\ stat_geo_contribution(f) \in 0..Pts(20)
            /\ stat_geo_contribution(f) > 0 <=> Get(f, "geo_risk_score", 0) > 50
            /\ stat_device_contribution(f) =
                  IF Get(f, "is_new_device", FALSE) THEN Pts(10) ELSE 0

\* the part of C23 that concerns geographic risk scores up to 100
C23_BoundedForGeoRiskUpTo100 ==
    (probe.op = "statistical" /\ Get(probe.features, "geo_risk_score", 0) <= 100)
        => C23_StatisticalContributionsBounded

-----------------------------------------------------------------------------
(* Geographic novelty in the Behavioral detector (SpecDetect) *)

\* the distance beyond the 500 km threshold, at the detector's rate of one
\* point per 100 km
excess_distance_points(f) ==
    (Get(f, "location_distance_km", 0) - 500) * (ScoreUnit \div 100)

\* C24: the geographic-novelty rule of the Behavioral detector adds to the
\* score only for a new location more than 500 km away, and what it adds is
\* proportional to the distance beyond 500 km and never more than 25 points,
\* so that a distance just above 500 km adds close to nothing.
C24_GeoNoveltyProportionalBeyond500 ==
    probe.op = "behavioral" =>
        LET f == probe.features
            fires == Get(f, "is_new_geo_location", FALSE)
                     /\ Get(f, "location_distance_km", 0) > 500
        IN  /\ outcome.score = clamp_score(beh_raw_score(f))
            /\ ~fires => beh_geo_contribution(f) = 0
            /\ fires => beh_geo_contribution(f) <= Pts(25)
            /\ fires => beh_geo_contribution(f) = Min(Pts(25), excess_distance_points(f))

\* the parts of C24 that do not depend on where the proportion starts
GeoNoveltyFiresAndIsCapped ==
    probe.op = "behavioral" =>
        LET f == probe.features
            fires == Get(f, "is_new_geo_location", FALSE)
                     /\ Get(f, "location_distance_km", 0) > 500
        IN  /\ ~fires => beh_geo_contribution(f) = 0
            /\ fires => beh_geo_contribution(f) \in 1..Pts(25)

-----------------------------------------------------------------------------
(* Order of the stages of one call (Spec) *)

\* a detector step was taken: the next detector in registration order was
\* invoked on the call's feature mapping and its result, or the neutral
\* result if it raised, was stored after the results already there
DetectorStepTaken ==
    LET j == Len(invoked[pos]) + 1
        d == DETECTORS[j]
    IN  /\ j <= Len(DETECTORS)
        /\ invoked'[pos] = Append(invoked[pos], d)
        /\ features' = features
        /\ detector_results' \in
              {Append(detector_results,
                      Entry(d, run_detector(d, features, transactions[pos].rnd.ml_noise))),
               Append(detector_results, Entry(d, neutral_result))}
        /\ pc' = IF j = Len(DETECTORS) THEN "tail" ELSE "detect"
        /\ results' = results
        /\ composite_score' = composite_score

\* the stages of a call as far as they can be seen in a state
StagesInOrder ==
    /\ pc \in {"detect", "tail"} =>
          /\ features = extract_features(transactions[pos])
          /\ Len(detector_results) = Len(invoked[pos])
          /\ Len(results) = pos - 1
    /\ pc = "detect" => Len(invoked[pos]) < Len(DETECTORS)
    /\ pc = "tail" => invoked[pos] = DETECTORS
    /\ \A k \in 1..Len(invoked) :
          /\ Len(invoked[k]) <= Len(DETECTORS)
          /\ \A j \in 1..Len(invoked[k]) : invoked[k][j] = DETECTORS[j]
          /\ faults[k] \subseteq Range(invoked[k])
    /\ \A k \in 1..Len(results) : invoked[k] = DETECTORS

\* C25: within one call the features are extracted first; then every
\* registered detector is invoked exactly once, in registration order and on
\* that one feature mapping, each leaving its result or the neutral result,
\* with a failure skipping no later detector; only then is the composite
\* computed, and severity and the alert decision are derived from it.
C25_StagesInOrder ==
    /\ []StagesInOrder
    /\ [][/\ features' # features => (pc = "loop" /\ pc' = "detect")
          /\ pc = "detect" => DetectorStepTaken
          /\ detector_results' # detector_results => pc \in {"loop", "detect"}
          /\ (results' # results \/ composite_score' # composite_score) =>
                /\ pc = "tail"
                /\ invoked[pos] = DETECTORS
                /\ Len(detector_results) = Len(DETECTORS)
                /\ detector_results' = detector_results
                /\ composite_score' = aggregate_scores(detector_results, detector_weights)
                /\ results' = Append(results, results'[Len(results')])
                /\ results'[Len(results')].severity = get_severity(composite_score')
                /\ results'[Len(results')].should_alert =
                      alert_decision(composite_score', risk_threshold_alert)
         ]_vars

\* the first detector raised, the other two were still invoked on the same
\* features, and aggregation has not started
C25_Witness ==
    /\ pc = "tail"
    /\ faults[pos] = {"statistical"}
    /\ invoked[pos] = DETECTORS
    /\ detector_results[1].confidence = 0
    /\ detector_results[2].confidence > 0
    /\ Len(results) = pos - 1

-----------------------------------------------------------------------------
(* The engine's aggregation and the engine's Risk Scorer (SpecAgg) *)

\* what self.risk_scorer, constructed as RiskScorer() by the engine, returns
\* for the scores and confidences of a mapping of detector results
engine_risk_scorer(d) ==
    calculate_composite_score(d, ConfidenceMap(d), validate_weights(<<>>))

\* C26: for every mapping of detector results and every weight map the
\* engine was given, the engine's reported risk score (its composite rounded
\* to 2 decimals) equals the composite_score returned by the engine's own
\* Risk Scorer for the same scores and confidences.
C26_EngineAggregationEqualsRiskScorer ==
    probe.op = "aggregate_scores" =>
        /\ ~engine_risk_scorer(probe.dict).raised
        /\ round2(outcome) = engine_risk_scorer(probe.dict).composite_score

\* C26 for the default engine weights and the three registered detectors
EngineEqualsRiskScorerByDefault ==
    (/\ probe.op = "aggregate_scores"
     /\ probe.weights = DEFAULT_ENGINE_WEIGHTS
     /\ \E i \in 1..Len(probe.dict) : probe.dict[i].name # "extra")
        => C26_EngineAggregationEqualsRiskScorer

-----------------------------------------------------------------------------
(* Historical statistics in the Feature Engineer (Spec) *)

IntSqrt(n) == CHOOSE r \in 0..n : r * r <= n /\ (r + 1) * (r + 1) > n

\* mean and (population) standard deviation of a non-empty history of
\* amounts, in hundredths
history_mean(h) == (SeqSum(h) * 100) \div Len(h)

history_std(h) ==
    LET sq == [i \in 1..Len(h) |-> (h[i] * Len(h) - SeqSum(h)) * (h[i] * Len(h) - SeqSum(h))]
    IN  (IntSqrt(SeqSum(sq) \div Len(h)) * 100) \div Len(h)

\* the statistics C27 expects the features to be computed against
expected_stats(tx) ==
    IF Len(tx.historical_transactions) > 0
    THEN [mean |-> history_mean(tx.historical_transactions),
          std |-> history_std(tx.historical_transactions)]
    ELSE [mean |-> historical_mean * 100, std |-> historical_std * 100]

\* C27: the features of a transaction that carries a non-empty history have
\* amount_zscore and amount_pct_from_avg computed against the mean and the
\* standard deviation of that history; the priors (mean 1,500, std 800) are
\* used only when no history is supplied.
C27_HistoryStatisticsUsed ==
    pc \in {"detect", "tail"} =>
        LET tx == transactions[pos]
            s == expected_stats(tx)
        IN  /\ features.amount_zscore =
                  IF s.std > 0
                  THEN RoundHalfEven((tx.amount * 100 - s.mean) * 100, s.std)
                  ELSE 0
            /\ features.amount_pct_from_avg =
                  IF s.mean > 0
                  THEN RoundHalfEven((tx.amount * 100 - s.mean) * 100, s.mean \div 100)
                  ELSE 0

\* C27 for the transactions without a history
PriorsUsedWithoutHistory ==
    (pc \in {"detect", "tail"} /\ transactions[pos].historical_transactions = <<>>)
        => C27_HistoryStatisticsUsed

\* the history has no influence on the two features
HistoryIgnored ==
    pc \in {"detect", "tail"} =>
        /\ features.amount_zscore =
              RoundHalfEven((transactions[pos].amount - historical_mean) * 100, historical_std)
        /\ features.amount_pct_from_avg =
              RoundHalfEven((transactions[pos].amount - historical_mean) * 100 * 100,
                            historical_mean)

-----------------------------------------------------------------------------
(* Consistency of an output with its reported risk score (Spec) *)

\* C28: in every output, should_alert is true exactly when the reported
\* risk_score (the composite rounded to 2 decimals) is at or above the alert
\* threshold, and severity is the four-tier classification of the reported
\* risk_score.
C28_OutputConsistentWithReportedScore ==
    \A k \in 1..Len(results) :
        /\ results[k].should_alert <=>
              alert_decision(Reported(results[k].risk_score), risk_threshold_alert)
        /\ results[k].severity = get_severity(Reported(results[k].risk_score))

\* the same with a reported score that is off every tier boundary and off
\* the threshold
ConsistentAwayFromBoundaries ==
    \A k \in 1..Len(results) :
        (/\ results[k].risk_score \notin {50 * 100, 70 * 100, 90 * 100}
         /\ Reported(results[k].risk_score).num # risk_threshold_alert)
            => /\ results[k].should_alert <=>
                     alert_decision(Reported(results[k].risk_score), risk_threshold_alert)
               /\ results[k].severity = get_severity(Reported(results[k].risk_score))

-----------------------------------------------------------------------------
(* No detector contributes (Spec) *)

\* result mappings of the three registered detectors in which every
\* confidence is 0, whatever the scores
ZeroConfidenceResults ==
    {[j \in 1..Len(DETECTORS) |->
         [name |-> DETECTORS[j], score |-> sc[j], confidence |-> 0,
          explanations |-> <<>>]] :
     sc \in [1..Len(DETECTORS) -> {0, Pts(50), Pts(100)}]}

\* C29: with the default configuration, an output for which every detector
\* raised has risk score 50, severity MEDIUM and should_alert true, and
\* reports 50 for each detector; the same composite, severity and decision
\* follow whenever every detector result has confidence 0.
C29_AllDetectorsFailIsNeutralAlert ==
    DefaultEngine =>
        /\ \A k \in 1..Len(results) :
              faults[k] = Range(DETECTORS) =>
                  /\ results[k].risk_score = 50 * 100
                  /\ results[k].severity = "MEDIUM"
                  /\ results[k].should_alert
                  /\ \A j \in 1..Len(DETECTORS) :
                        results[k].detector_scores[j] =
                            [name |-> DETECTORS[j], score |-> Pts(50)]
        /\ (pc = "tail" /\ \A j \in 1..Len(detector_results) :
                               detector_results[j].confidence = 0) =>
              aggregate_scores(detector_results, detector_weights)
                  = [num |-> Pts(50), den |-> 1]
        /\ \A d \in ZeroConfidenceResults :
              LET c == aggregate_scores(d, detector_weights)
              IN  /\ round2(c) = 50 * 100
                  /\ get_severity(c) = "MEDIUM"
                  /\ alert_decision(c, risk_threshold_alert)

\* a batch of two on the default engine has returned: every detector raised
\* for the second transaction, none for the first
C29_Witness ==
    /\ DefaultEngine
    /\ pc = "returned"
    /\ Len(returned) = 2
    /\ faults[1] = {}
    /\ faults[2] = Range(DETECTORS)
    /\ returned[2].risk_score = 50 * 100
    /\ returned[2].should_alert
    /\ returned[1].risk_score # 50 * 100

-----------------------------------------------------------------------------
(* A failing extraction inside a batch (Spec) *)

\* the metrics after the calls before call number k have returned, on a
\* collector that held n earlier scores
MetricsBeforeCall(n, k) ==
    [detection_scores |->
        LastOf(prior_metrics(n).detection_scores \o
                   [i \in 1..(k - 1) |-> CallComposite(i)],
               SCORES_KEPT),
     alerts_created |->
        n + Cardinality({i \in 1..(k - 1) : results[i].should_alert})]

\* C30: once feature extraction has failed for transaction number k of a
\* batch, batch_process has raised and hands no output to its caller, not
\* even those of the k-1 transactions it had processed; no transaction after
\* number k is ever started; and the metrics of the k-1 processed
\* transactions stay recorded.
C30_BatchFailureLosesOutputsKeepsMetrics ==
    /\ [](raised =>
            /\ pc = "raised"
            /\ extraction_raises(transactions[pos])
            /\ returned = <<>>
            /\ Len(results) = pos - 1
            /\ Len(invoked) = pos
            /\ invoked[pos] = <<>>
            /\ \A i \in 1..(pos - 1) : invoked[i] = DETECTORS
            /\ \E n \in PriorCalls : metrics = MetricsBeforeCall(n, pos))
    /\ [][~raised]_vars

\* the second transaction of a batch failed in extraction after the first
\* was processed and raised an alert: nothing is returned, the collector
\* keeps the first call's score and alert
C30_Witness ==
    /\ raised
    /\ Len(transactions) = 2
    /\ pos = 2
    /\ returned = <<>>
    /\ results[1].should_alert
    /\ metrics.alerts_created = 1
    /\ metrics.detection_scores = <<CallComposite(1)>>

\* the first transaction of a batch of two failed: the second is never started
C30_LaterNeverStarted ==
    /\ raised
    /\ Len(transactions) = 2
    /\ pos = 1
    /\ ~extraction_raises(transactions[2])
    /\ metrics.detection_scores = <<>>

=============================================================================
